---- MODULE Spec2Model ----
(***************************************************************************)
(* GITguard review pipeline: webhook enqueue (deduplicated by delivery id), *)
(* the BullMQ review worker, ReviewService.processReview and the            *)
(* installation-token cache of GitHubAppService.                            *)
(*                                                                          *)
(* Code between two awaits runs atomically on the Node event loop, so each  *)
(* action is one such segment: it consumes the answer of the call a job is  *)
(* waiting for and runs up to the next call it sends.                       *)
(***************************************************************************)
EXTENDS Integers, Sequences, FiniteSets, TLC

\* ---- bounds of the model ------------------------------------------------
MaxDeliveries == 2      \* distinct X-GitHub-Delivery ids
MaxWebhooks == 2        \* webhook deliveries the host makes in total
MaxMint == 2            \* installation tokens the host issues
MaxLifeTicks == 1       \* longest token lifetime beyond the margin, in ticks

\* ---- program constants --------------------------------------------------
Attempts == 2           \* webhookController.js:108  attempts: 2
BackoffDelayMs == 1000  \* webhookController.js:112  backoff.delay
Concurrency == 2        \* part_015:46               concurrency: 2
MarginMs == 60000       \* part_006:65               60 * 1000, "1 min buffer"
DefaultRetryCount == 1  \* part_005:41               analyzeDiff(prompt, retryCount = 1)

Deliveries == 1..MaxDeliveries
NoToken == 0

\* installation.id of the pull request a delivery is about
InstallOf(d) == IF d <= 2 THEN 1 ELSE 2
Installs == {InstallOf(d) : d \in Deliveries}

Max(a, b) == IF a >= b THEN a ELSE b
Min(a, b) == IF a <= b THEN a ELSE b
\* History counters count none, one, several.
Bump(n) == IF n = 0 THEN 1 ELSE 2

\* Time advances in steps of the base backoff delay.
TickMs == BackoffDelayMs
\* expires_at minus Date.now() of the exchange answers the host may give
Lifetimes == {MarginMs + k * TickMs : k \in 0..MaxLifeTicks}

VARIABLES
    delivered,   \* webhook deliveries handled so far
    jobHash,     \* jobHash[d]: the job record kept under jobId d
    wait,        \* the queue's wait list (job ids, head is next)
    delayed,     \* delayed[d]: ids in the delayed set
    delayLeft,   \* delayLeft[d]: ms until a delayed job may be promoted
    active,      \* ids in the active list (held by a worker slot)
    failed,      \* ids in the failed set
    pc,          \* pc[d]: the call the attempt of job d is waiting for
    retryCount,  \* retryCount[d]: analyzeDiff's retryCount
    tokenCache,  \* tokenCache[i]: GitHubAppService.tokenCache entry
    minted,      \* installation tokens issued so far
    diffTok,     \* diffTok[d]: token getDiff's client got
    diffLeft,    \* diffLeft[d]: real expiry of diffTok[d] minus now (floored at MarginMs)
    postTok,     \* postTok[d]: token postReview's client got
    via,         \* via[d]: how the last getInstallationAccessToken call answered
    inFlight,    \* inFlight[i]: exchange requests sent for i and not answered
    seen,        \* ids 1..seen have been delivered at least once
    completedRuns, \* completedRuns[d]: processReview runs that resolved
    authFailed,  \* authFailed[d]: signing or the exchange failed in d's latest attempt
    reviews,     \* reviews[d]: Review documents created for d's pull request
    posted,      \* posted[d]: how pulls.createReview answered in d's latest attempt
    probe        \* arguments and results of the pure functions under check

vars == <<delivered, jobHash, wait, delayed, delayLeft, active, failed, pc,
          retryCount, tokenCache, minted, diffTok, diffLeft, postTok, via,
          inFlight, completedRuns, authFailed, reviews, posted, probe, seen>>

queueVars == <<jobHash, wait, delayed, delayLeft, active, failed>>
cacheVars == <<tokenCache, minted, inFlight>>
histVars == <<completedRuns>>
tokVars == <<diffTok, diffLeft, postTok, via>>
recVars == <<reviews, posted>>

\* The pipeline leaves probe alone; the specifications of the pure functions
\* leave the pipeline alone.
NoProbe == [fn |-> "none"]

NoJob == [exists |-> FALSE, attemptsMade |-> 0, attemptsStarted |-> 0]
\* realLeft: the token's real expiry minus now (floored at MarginMs)
NoEntry == [token |-> NoToken, expiresIn |-> 0, realLeft |-> MarginMs]

\* The pipeline after construction: empty queue, idle worker, empty cache.
PipelineInit ==
    /\ delivered = 0
    /\ jobHash = [d \in Deliveries |-> NoJob]
    /\ wait = <<>>
    /\ delayed = {}
    /\ delayLeft = [d \in Deliveries |-> 0]
    /\ active = {}
    /\ failed = {}
    /\ pc = [d \in Deliveries |-> "idle"]
    /\ retryCount = [d \in Deliveries |-> 0]
    /\ tokenCache = [i \in Installs |-> NoEntry]
    /\ minted = 0
    /\ diffTok = [d \in Deliveries |-> NoToken]
    /\ diffLeft = [d \in Deliveries |-> MarginMs]
    /\ postTok = [d \in Deliveries |-> NoToken]
    /\ via = [d \in Deliveries |-> "none"]
    /\ inFlight = [i \in Installs |-> 0]
    /\ seen = 0
    /\ completedRuns = [d \in Deliveries |-> 0]
    /\ authFailed = [d \in Deliveries |-> FALSE]
    /\ reviews = [d \in Deliveries |-> 0]
    /\ posted = [d \in Deliveries |-> "none"]

Init ==
    /\ PipelineInit
    /\ probe = NoProbe

pipelineVars == <<delivered, jobHash, wait, delayed, delayLeft, active, failed,
                  pc, retryCount, tokenCache, minted, diffTok, diffLeft,
                  postTok, via, inFlight, completedRuns, authFailed, reviews,
                  posted, seen>>

\* ---- the queue ----------------------------------------------------------
Occurrences(s, d) == Cardinality({k \in 1..Len(s) : s[k] = d})

\* Queue.add that does not look for an existing job with the id.
QueueAdd_NoDedup(d) ==
    /\ jobHash' = [jobHash EXCEPT ![d] =
            [exists |-> TRUE, attemptsMade |-> 0, attemptsStarted |-> 0]]
    /\ wait' = Append(wait, d)
    /\ UNCHANGED <<delayed, delayLeft, active, failed>>

\* Queue.add with opts.jobId: a job whose id already exists is left alone.
QueueAdd(d) ==
    IF jobHash[d].exists
    THEN UNCHANGED queueVars
    ELSE /\ jobHash' = [jobHash EXCEPT ![d] =
                [exists |-> TRUE, attemptsMade |-> 0, attemptsStarted |-> 0]]
         /\ wait' = Append(wait, d)
         /\ UNCHANGED <<delayed, delayLeft, active, failed>>

\* handleWebhook on a valid pull_request delivery (opened / reopened).
\* Delivery ids are opaque: they are numbered in the order of their first
\* delivery, so d is a redelivery (d <= seen) or the next new id.
HandleWebhook(d) ==
    /\ delivered < MaxWebhooks
    /\ d <= seen + 1
    /\ seen' = Max(seen, d)
    /\ delivered' = delivered + 1
    /\ QueueAdd(d)
    /\ UNCHANGED <<pc, retryCount, cacheVars, tokVars,
                   histVars, authFailed, recVars>>
    /\ UNCHANGED probe

\* Exponential backoff of the queue: 2^(attemptsMade - 1) * delay.
Backoff(made) == (2 ^ (made - 1)) * BackoffDelayMs

\* A worker slot takes the head of the wait list and calls the processor,
\* which runs up to its first await (repoService.findOrCreateRepo).
StartJob(d) ==
    /\ Len(wait) > 0
    /\ Head(wait) = d
    /\ Cardinality(active) < Concurrency
    /\ wait' = Tail(wait)
    /\ active' = active \cup {d}
    /\ jobHash' = [jobHash EXCEPT ![d].attemptsStarted = @ + 1]
    /\ pc' = [pc EXCEPT ![d] = "repo"]
    /\ authFailed' = [authFailed EXCEPT ![d] = FALSE]
    /\ posted' = [posted EXCEPT ![d] = "none"]
    /\ UNCHANGED <<delivered, delayed, delayLeft, failed, retryCount,
                   cacheVars, tokVars, histVars, reviews>>
    /\ UNCHANGED <<probe, seen>>

\* A queue that drops the job it should retry: the retry is never scheduled.
MoveToFailed_NoRetryScheduled(d) ==
    LET made == jobHash[d].attemptsMade + 1 IN
    /\ jobHash' = [jobHash EXCEPT ![d].attemptsMade = made]
    /\ active' = active \ {d}
    /\ IF made < Attempts
       THEN UNCHANGED <<delayed, delayLeft, failed>>
       ELSE /\ failed' = failed \cup {d}
            /\ UNCHANGED <<delayed, delayLeft>>
    /\ wait' = wait

\* A queue that counts one attempt too many before giving up.
MoveToFailed_OneMore(d) ==
    LET made == jobHash[d].attemptsMade + 1 IN
    /\ jobHash' = [jobHash EXCEPT ![d].attemptsMade = made]
    /\ active' = active \ {d}
    /\ IF made <= Attempts
       THEN /\ delayed' = delayed \cup {d}
            /\ delayLeft' = [delayLeft EXCEPT ![d] = Backoff(made)]
            /\ failed' = failed
       ELSE /\ failed' = failed \cup {d}
            /\ UNCHANGED <<delayed, delayLeft>>
    /\ wait' = wait

\* The processor threw: retry after the backoff while attempts are left,
\* otherwise the job goes to the failed set and stays there.
MoveToFailed(d) ==
    LET made == jobHash[d].attemptsMade + 1 IN
    /\ jobHash' = [jobHash EXCEPT ![d].attemptsMade = made]
    /\ active' = active \ {d}
    /\ IF made < Attempts
       THEN /\ delayed' = delayed \cup {d}
            /\ delayLeft' = [delayLeft EXCEPT ![d] = Backoff(made)]
            /\ failed' = failed
       ELSE /\ failed' = failed \cup {d}
            /\ UNCHANGED <<delayed, delayLeft>>
    /\ wait' = wait

\* The processor returned: removeOnComplete: true deletes the job.
MoveToCompleted(d) ==
    /\ jobHash' = [jobHash EXCEPT ![d] = NoJob]
    /\ active' = active \ {d}
    /\ UNCHANGED <<wait, delayed, delayLeft, failed>>

\* A delayed job whose backoff has elapsed goes back to the wait list.
PromoteDelayed(d) ==
    /\ d \in delayed
    /\ delayLeft[d] = 0
    /\ delayed' = delayed \ {d}
    /\ wait' = Append(wait, d)
    /\ UNCHANGED <<delivered, jobHash, delayLeft, active, failed, pc,
                   retryCount, cacheVars, tokVars, histVars,
                   authFailed>>
    /\ UNCHANGED <<probe, seen>>
    /\ UNCHANGED recVars

EndAttempt(d) ==
    /\ pc' = [pc EXCEPT ![d] = "idle"]
    /\ retryCount' = [retryCount EXCEPT ![d] = 0]
    /\ diffTok' = [diffTok EXCEPT ![d] = NoToken]
    /\ diffLeft' = [diffLeft EXCEPT ![d] = MarginMs]
    /\ postTok' = [postTok EXCEPT ![d] = NoToken]
    /\ via' = [via EXCEPT ![d] = "none"]

\* processReview rejects; the worker's catch re-throws to the queue.
Throw(d) ==
    /\ EndAttempt(d)
    /\ MoveToFailed(d)

\* processReview resolves after the whole pipeline ran.
Resolve(d) ==
    /\ EndAttempt(d)
    /\ MoveToCompleted(d)
    /\ completedRuns' = [completedRuns EXCEPT ![d] = Bump(@)]

\* ---- GitHubAppService: the installation-token cache ----------------------
\* cached && cached.expiresAt > Date.now()
CacheValid(entry) == entry.token # NoToken /\ entry.expiresIn > 0

\* An expiry cached without the safety margin.
ExpiresIn_NoMargin(life) == life

\* expiresAt = new Date(data.expires_at).getTime() - 60 * 1000, relative to now
ExpiresIn(life) == life - MarginMs

\* The exchange answered with a fresh token: tokenCache.set(installationId, ..).
\* Entries that are no longer valid are all alike, so expiresIn is floored at 0.
StoreToken(i, life) ==
    /\ minted' = minted + 1
    /\ tokenCache' = [tokenCache EXCEPT ![i] =
            [token |-> minted + 1,
             expiresIn |-> Max(ExpiresIn(life), 0),
             realLeft |-> Max(life, MarginMs)]]
    /\ inFlight' = [inFlight EXCEPT ![i] = @ - 1]

\* ---- GitHubService.getDiff ------------------------------------------------
\* getDiff -> getClient -> getInstallationAccessToken, up to the next await:
\* a valid cache entry is returned at once and listFiles is sent; otherwise
\* the app JWT is signed (which may throw) and the exchange request is sent.
GetDiffCall(d, signOk) ==
    LET i == InstallOf(d) IN
    IF CacheValid(tokenCache[i])
    THEN /\ diffTok' = [diffTok EXCEPT ![d] = tokenCache[i].token]
         /\ diffLeft' = [diffLeft EXCEPT ![d] = tokenCache[i].realLeft]
         /\ via' = [via EXCEPT ![d] = "cache"]
         /\ pc' = [pc EXCEPT ![d] = "diff_list"]
         /\ UNCHANGED <<queueVars, cacheVars, retryCount, postTok, authFailed>>
    ELSE IF signOk
    THEN /\ inFlight' = [inFlight EXCEPT ![i] = @ + 1]
         /\ pc' = [pc EXCEPT ![d] = "diff_exch"]
         /\ UNCHANGED <<queueVars, tokenCache, minted, retryCount, tokVars,
                        authFailed>>
    ELSE /\ authFailed' = [authFailed EXCEPT ![d] = TRUE]
         /\ Throw(d)
         /\ UNCHANGED cacheVars

\* findOrCreateRepo answered.
RepoAnswer(d, ok, signOk) ==
    /\ pc[d] = "repo"
    /\ IF ok
       THEN GetDiffCall(d, signOk)
       ELSE Throw(d) /\ UNCHANGED <<cacheVars, authFailed>>
    /\ UNCHANGED <<delivered, histVars>>
    /\ UNCHANGED <<probe, seen>>
    /\ UNCHANGED recVars

\* The token exchange of getDiff's client answered.
DiffExchangeAnswer(d, ok, life) ==
    LET i == InstallOf(d) IN
    /\ pc[d] = "diff_exch"
    /\ ok => minted < MaxMint
    /\ IF ok
       THEN /\ StoreToken(i, life)
            /\ diffTok' = [diffTok EXCEPT ![d] = minted + 1]
            /\ diffLeft' = [diffLeft EXCEPT ![d] = Max(life, MarginMs)]
            /\ via' = [via EXCEPT ![d] = "exchange"]
            /\ pc' = [pc EXCEPT ![d] = "diff_list"]
            /\ UNCHANGED <<queueVars, retryCount, postTok, authFailed>>
       ELSE /\ inFlight' = [inFlight EXCEPT ![i] = @ - 1]
            /\ authFailed' = [authFailed EXCEPT ![d] = TRUE]
            /\ Throw(d)
            /\ UNCHANGED <<tokenCache, minted>>
    /\ UNCHANGED <<delivered, histVars>>
    /\ UNCHANGED <<probe, seen>>
    /\ UNCHANGED recVars

\* pulls.listFiles answered: a diff, no file with a patch, or an error.
DiffListAnswer(d, res) ==
    /\ pc[d] = "diff_list"
    /\ IF res = "diff"
       THEN /\ pc' = [pc EXCEPT ![d] = "llm"]
            /\ retryCount' = [retryCount EXCEPT ![d] = DefaultRetryCount]
            /\ via' = [via EXCEPT ![d] = "none"]
            /\ UNCHANGED <<queueVars, diffTok, diffLeft, postTok>>
       ELSE Throw(d)
    /\ UNCHANGED <<delivered, cacheVars, histVars, authFailed>>
    /\ UNCHANGED <<probe, seen>>
    /\ UNCHANGED recVars

\* ---- LLMService.analyzeDiff -----------------------------------------------
\* MayRetry_AtZero: a parse failure is retried while retryCount >= 0
MayRetry_AtZero(count) == count >= 0

\* analyzeDiff: if (retryCount > 0) after a parse failure
MayRetry(count) == count > 0

\* The completion request answered: parsable JSON, unparsable content
\* (retried while retryCount > 0), or an API error.
LlmAnswer(d, res) ==
    /\ pc[d] = "llm"
    /\ CASE res = "json" ->
              /\ pc' = [pc EXCEPT ![d] = "policy"]
              /\ retryCount' = [retryCount EXCEPT ![d] = 0]
              /\ UNCHANGED <<queueVars, tokVars>>
         [] res = "garbage" /\ MayRetry(retryCount[d]) ->
              /\ retryCount' = [retryCount EXCEPT ![d] = @ - 1]
              /\ UNCHANGED <<queueVars, pc, tokVars>>
         [] OTHER -> Throw(d)
    /\ UNCHANGED <<delivered, cacheVars, histVars, authFailed>>
    /\ UNCHANGED <<probe, seen>>
    /\ UNCHANGED recVars

\* ---- ReviewService.processReview, steps 5 to 9 ----------------------------
\* evaluatePolicy's Policy.findOne answered; Review.create is sent next.
PolicyAnswer(d, ok) ==
    /\ pc[d] = "policy"
    /\ IF ok
       THEN /\ pc' = [pc EXCEPT ![d] = "create"]
            /\ UNCHANGED <<queueVars, retryCount, tokVars>>
       ELSE Throw(d)
    /\ UNCHANGED <<delivered, cacheVars, histVars, authFailed>>
    /\ UNCHANGED <<probe, seen>>
    /\ UNCHANGED recVars

\* postReview -> getClient -> getInstallationAccessToken, up to the next
\* await.  The call sits inside postReview's try: a failure to sign is caught
\* and logged there, postReview resolves and trackUsage is called.
PostReviewCall(d, signOk) ==
    LET i == InstallOf(d) IN
    IF CacheValid(tokenCache[i])
    THEN /\ postTok' = [postTok EXCEPT ![d] = tokenCache[i].token]
         /\ via' = [via EXCEPT ![d] = "cache"]
         /\ pc' = [pc EXCEPT ![d] = "post_create"]
         /\ UNCHANGED <<cacheVars, authFailed>>
    ELSE IF signOk
    THEN /\ inFlight' = [inFlight EXCEPT ![i] = @ + 1]
         /\ pc' = [pc EXCEPT ![d] = "post_exch"]
         /\ UNCHANGED <<tokenCache, minted, postTok, via, authFailed>>
    ELSE /\ authFailed' = [authFailed EXCEPT ![d] = TRUE]
         /\ pc' = [pc EXCEPT ![d] = "usage"]
         /\ UNCHANGED <<cacheVars, postTok, via>>

\* Review.create answered; with findings ReviewIssue.insertMany is sent,
\* without findings the review is posted.
CreateAnswer(d, ok, hasIssues, signOk) ==
    /\ pc[d] = "create"
    /\ IF ok
       THEN /\ reviews' = [reviews EXCEPT ![d] = Bump(@)]
            /\ IF hasIssues
               THEN /\ pc' = [pc EXCEPT ![d] = "issues"]
                    /\ UNCHANGED <<cacheVars, postTok, via, authFailed>>
               ELSE PostReviewCall(d, signOk)
            /\ UNCHANGED <<queueVars, retryCount, diffTok, diffLeft>>
       ELSE /\ Throw(d)
            /\ UNCHANGED <<cacheVars, authFailed, reviews>>
    /\ UNCHANGED <<delivered, histVars, posted>>
    /\ UNCHANGED <<probe, seen>>

\* ReviewIssue.insertMany answered.
IssuesAnswer(d, ok, signOk) ==
    /\ pc[d] = "issues"
    /\ IF ok
       THEN /\ PostReviewCall(d, signOk)
            /\ UNCHANGED <<queueVars, retryCount, diffTok, diffLeft>>
       ELSE /\ Throw(d)
            /\ UNCHANGED <<cacheVars, authFailed>>
    /\ UNCHANGED <<delivered, histVars>>
    /\ UNCHANGED <<probe, seen>>
    /\ UNCHANGED recVars

\* The token exchange of postReview's client answered; an error is caught by
\* postReview.
PostExchangeAnswer(d, ok, life) ==
    LET i == InstallOf(d) IN
    /\ pc[d] = "post_exch"
    /\ ok => minted < MaxMint
    /\ IF ok
       THEN /\ StoreToken(i, life)
            /\ postTok' = [postTok EXCEPT ![d] = minted + 1]
            /\ via' = [via EXCEPT ![d] = "exchange"]
            /\ pc' = [pc EXCEPT ![d] = "post_create"]
            /\ UNCHANGED authFailed
       ELSE /\ inFlight' = [inFlight EXCEPT ![i] = @ - 1]
            /\ authFailed' = [authFailed EXCEPT ![d] = TRUE]
            /\ pc' = [pc EXCEPT ![d] = "usage"]
            /\ UNCHANGED <<tokenCache, minted, postTok, via>>
    /\ UNCHANGED <<delivered, queueVars, retryCount, diffTok, diffLeft, histVars>>
    /\ UNCHANGED <<probe, seen>>
    /\ UNCHANGED recVars

\* A postReview without its catch: an error of pulls.createReview rejects
\* processReview.
PostCreateAnswer_Rethrows(d, ok) ==
    /\ pc[d] = "post_create"
    /\ posted' = [posted EXCEPT ![d] = IF ok THEN "ok" ELSE "failed"]
    /\ IF ok
       THEN /\ pc' = [pc EXCEPT ![d] = "usage"]
            /\ postTok' = [postTok EXCEPT ![d] = NoToken]
            /\ via' = [via EXCEPT ![d] = "none"]
            /\ UNCHANGED <<queueVars, retryCount, diffTok, diffLeft>>
       ELSE Throw(d)
    /\ UNCHANGED <<delivered, cacheVars, histVars, authFailed, reviews>>
    /\ UNCHANGED <<probe, seen>>

\* pulls.createReview answered; an error is caught by postReview.  Either way
\* postReview resolves and trackUsage is called.
PostCreateAnswer(d, ok) ==
    /\ pc[d] = "post_create"
    /\ posted' = [posted EXCEPT ![d] = IF ok THEN "ok" ELSE "failed"]
    /\ pc' = [pc EXCEPT ![d] = "usage"]
    /\ postTok' = [postTok EXCEPT ![d] = NoToken]
    /\ via' = [via EXCEPT ![d] = "none"]
    /\ UNCHANGED <<delivered, queueVars, retryCount, cacheVars, diffTok,
                   diffLeft, histVars, authFailed, reviews>>
    /\ UNCHANGED <<probe, seen>>

\* trackUsage resolved (it catches its own errors); processReview returns.
UsageAnswer(d) ==
    /\ pc[d] = "usage"
    /\ Resolve(d)
    /\ UNCHANGED <<delivered, cacheVars, authFailed>>
    /\ UNCHANGED <<probe, seen>>
    /\ UNCHANGED recVars

\* ---- time -----------------------------------------------------------------
\* TickMs pass.  Only what the code compares with the clock is kept: the
\* backoff of delayed jobs and the expiry of tokens.
Advance ==
    /\ delayLeft' = [d \in Deliveries |-> Max(delayLeft[d] - TickMs, 0)]
    /\ tokenCache' = [i \in Installs |->
            [tokenCache[i] EXCEPT !.expiresIn = Max(@ - TickMs, 0),
                                  !.realLeft = Max(@ - TickMs, MarginMs)]]
    /\ diffLeft' = [d \in Deliveries |-> Max(diffLeft[d] - TickMs, MarginMs)]
    /\ UNCHANGED <<delivered, jobHash, wait, delayed, active, failed, pc,
                   retryCount, minted, diffTok, postTok, via, inFlight,
                   histVars, authFailed>>
    /\ UNCHANGED <<probe, seen>>
    /\ UNCHANGED recVars

\* ---- the environment --------------------------------------------------------
\* Answers of the document store.
DbAnswer(d) ==
    \/ \E ok \in BOOLEAN, signOk \in BOOLEAN : RepoAnswer(d, ok, signOk)
    \/ \E ok \in BOOLEAN : PolicyAnswer(d, ok)
    \/ \E ok \in BOOLEAN, hasIssues \in BOOLEAN, signOk \in BOOLEAN :
            CreateAnswer(d, ok, hasIssues, signOk)
    \/ \E ok \in BOOLEAN, signOk \in BOOLEAN : IssuesAnswer(d, ok, signOk)
    \/ UsageAnswer(d)

\* Answers of the external calls: the host (token exchange, listFiles,
\* createReview) and the LLM API.  The code sets no timeout on any of them,
\* so nothing happens to a job until its call answers.
HostAnswer(d) ==
    \/ \E ok \in BOOLEAN, life \in Lifetimes : DiffExchangeAnswer(d, ok, life)
    \/ \E res \in {"diff", "empty", "error"} : DiffListAnswer(d, res)
    \/ \E res \in {"json", "garbage", "error"} : LlmAnswer(d, res)
    \/ \E ok \in BOOLEAN, life \in Lifetimes : PostExchangeAnswer(d, ok, life)
    \/ \E ok \in BOOLEAN : PostCreateAnswer(d, ok)

Next ==
    \/ \E d \in Deliveries : HandleWebhook(d)
    \/ \E d \in Deliveries : StartJob(d)
    \/ \E d \in Deliveries : PromoteDelayed(d)
    \/ \E d \in Deliveries : DbAnswer(d)
    \/ \E d \in Deliveries : HostAnswer(d)
    \/ Advance

Spec == Init /\ [][Next]_vars

\* The worker and the queue keep running and the clock keeps ticking.
WorkerFair ==
    /\ WF_vars(Advance)
    /\ \A d \in Deliveries : WF_vars(StartJob(d))
    /\ \A d \in Deliveries : WF_vars(PromoteDelayed(d))
    /\ \A d \in Deliveries : WF_vars(DbAnswer(d))

\* Fair worker; an external call may stay unanswered for ever.
HangSpec == Spec /\ WorkerFair

\* Fair worker, and every external call is answered in the end.
FairSpec == Spec /\ WorkerFair /\ \A d \in Deliveries : WF_vars(HostAnswer(d))

\* ==== Risk scoring: what a model response turns into =========================

\* ---- bounds of the risk-scoring inputs ---------------------------------------
MaxIssues == 3          \* issues in one model response (review path)
MaxUnits == 2           \* per-file prompts of one batch job

\* ---- program constants --------------------------------------------------
ScoreCap == 100              \* part_005:38   Math.min(totalScore, 100)
SecurityHighScore == 40      \* part_005:26
BugHighScore == 30           \* part_005:27
PerformanceMediumScore == 15 \* part_005:28
QualityLowScore == 5         \* part_005:29
FallbackHighScore == 20      \* part_005:32
FallbackMediumScore == 10    \* part_005:33
FallbackOtherScore == 5      \* part_005:34
CriticalWeight == 40         \* part_016:94
HighWeight == 20             \* part_016:95
MediumWeight == 10           \* part_016:96
LowWeight == 5               \* part_016:97
DefaultWeight == 5           \* part_016:102  weights[issue.severity] || 5
DefaultBlockRiskThreshold == 80  \* models/Policy.js:5
DefaultWarnOnIssueCount == 5     \* models/Policy.js:7

\* String.prototype.toLowerCase on the strings that occur
toLowerCase(s) ==
    CASE s = "High" -> "high"
      [] s = "Critical" -> "critical"
      [] s = "Medium" -> "medium"
      [] s = "Low" -> "low"
      [] s = "Security" -> "security"
      [] s = "Bug" -> "bug"
      [] OTHER -> s

\* LLMService.calculateRiskScore: the points of one issue
IssueScore(issue) ==
    LET severity == toLowerCase(issue.severity)
        category == toLowerCase(issue.category)
    IN  IF category = "security" /\ severity = "high" THEN SecurityHighScore
        ELSE IF category = "bug" /\ severity = "high" THEN BugHighScore
        ELSE IF category = "performance" /\ severity = "medium"
            THEN PerformanceMediumScore
        ELSE IF category = "quality" /\ severity = "low" THEN QualityLowScore
        ELSE IF severity = "high" THEN FallbackHighScore
        ELSE IF severity = "medium" THEN FallbackMediumScore
        ELSE FallbackOtherScore

RECURSIVE TotalScore(_)
TotalScore(issues) ==
    IF issues = <<>> THEN 0
    ELSE IssueScore(Head(issues)) + TotalScore(Tail(issues))

\* A calculateRiskScore that returns the sum as it is
calculateRiskScore_NoCap(issues) ==
    IF Len(issues) = 0 THEN 0 ELSE TotalScore(issues)

calculateRiskScore(issues) ==
    IF Len(issues) = 0 THEN 0 ELSE Min(TotalScore(issues), ScoreCap)

\* analyzeDiff_KeepsModelScore: analyzeDiff without the recalculation
analyzeDiff_KeepsModelScore(parsed) == parsed

\* LLMService.analyzeDiff on a response that parses: the model's risk_score
\* is overwritten before the object is returned.
analyzeDiff(parsed) ==
    [parsed EXCEPT !.risk_score = calculateRiskScore(parsed.issues)]

NoPolicy == [exists |-> FALSE]

\* RiskExceeds_AtThreshold: the comparison with >= in place of >
RiskExceeds_AtThreshold(riskScore, threshold) == riskScore >= threshold

\* evaluatePolicy: analysis.risk_score > policy.blockRiskThreshold
RiskExceeds(riskScore, threshold) == riskScore > threshold

\* evaluatePolicy_DefaultsWithoutPolicy: a repository without a policy
\* document is judged by the schema's defaults
evaluatePolicy_DefaultsWithoutPolicy(policy, analysis) ==
    LET threshold == IF policy.exists THEN policy.blockRiskThreshold
                     ELSE DefaultBlockRiskThreshold
        riskReason ==
            IF RiskExceeds(analysis.risk_score, threshold)
            THEN << <<"Risk score", analysis.risk_score,
                      "exceeds threshold of", threshold>> >>
            ELSE <<>>
        highSecurityIssue ==
            \E k \in 1..Len(analysis.issues) :
                /\ toLowerCase(analysis.issues[k].category) = "security"
                /\ toLowerCase(analysis.issues[k].severity) = "high"
        securityReason ==
            IF (policy.exists => policy.blockOnHighSecurity) /\ highSecurityIssue
            THEN << <<"High-severity security vulnerability detected">> >>
            ELSE <<>>
        blockingReasons == riskReason \o securityReason
    IN  [isBlocked |-> Len(blockingReasons) > 0, reason |-> blockingReasons]

\* ReviewService.evaluatePolicy
evaluatePolicy(policy, analysis) ==
    IF ~policy.exists THEN [isBlocked |-> FALSE, reason |-> <<>>]
    ELSE
        LET riskReason ==
                IF RiskExceeds(analysis.risk_score, policy.blockRiskThreshold)
                THEN << <<"Risk score", analysis.risk_score,
                          "exceeds threshold of", policy.blockRiskThreshold>> >>
                ELSE <<>>
            highSecurityIssue ==
                \E k \in 1..Len(analysis.issues) :
                    /\ toLowerCase(analysis.issues[k].category) = "security"
                    /\ toLowerCase(analysis.issues[k].severity) = "high"
            securityReason ==
                IF policy.blockOnHighSecurity /\ highSecurityIssue
                THEN << <<"High-severity security vulnerability detected">> >>
                ELSE <<>>
            blockingReasons == riskReason \o securityReason
        IN  [isBlocked |-> Len(blockingReasons) > 0, reason |-> blockingReasons]

reviewStatus(analysis) == IF Len(analysis.issues) > 0 THEN "issues" ELSE "clean"

\* The document processReview passes to Review.create
ReviewDocument(analysis, policyDecision) ==
    [riskScore |-> analysis.risk_score,
     status |-> reviewStatus(analysis),
     policyDecisionCache |-> [isBlocked |-> policyDecision.isBlocked,
                              blockingReason |-> policyDecision.reason]]

\* PostedReview_AlwaysComment: the review is posted with the default verb
PostedReview_AlwaysComment(analysis, policyDecision) ==
    [riskScore |-> analysis.risk_score,
     status |-> reviewStatus(analysis),
     summary |-> IF policyDecision.isBlocked
                 THEN <<"PR BLOCKED BY POLICY", policyDecision.reason,
                        analysis.summary>>
                 ELSE <<analysis.summary>>,
     issues |-> Len(analysis.issues),
     event |-> "COMMENT"]

\* The review processReview hands to postReview and postReview sends
PostedReview(analysis, policyDecision) ==
    [riskScore |-> analysis.risk_score,
     status |-> reviewStatus(analysis),
     summary |-> IF policyDecision.isBlocked
                 THEN <<"PR BLOCKED BY POLICY", policyDecision.reason,
                        analysis.summary>>
                 ELSE <<analysis.summary>>,
     issues |-> Len(analysis.issues),
     event |-> IF policyDecision.isBlocked THEN "REQUEST_CHANGES"
               ELSE "COMMENT"]

\* ---- llmClient.sendToLLM and the batch worker -------------------------------

\* llmClient.calculateDeterministicRiskScore: weights[issue.severity] || 5
SeverityWeight(severity) ==
    CASE severity = "Critical" -> CriticalWeight
      [] severity = "High" -> HighWeight
      [] severity = "Medium" -> MediumWeight
      [] severity = "Low" -> LowWeight
      [] OTHER -> DefaultWeight

RECURSIVE TotalWeight(_)
TotalWeight(issues) ==
    IF issues = <<>> THEN 0
    ELSE SeverityWeight(Head(issues).severity) + TotalWeight(Tail(issues))

calculateDeterministicRiskScore(issues) ==
    IF Len(issues) = 0 THEN 0 ELSE Min(ScoreCap, TotalWeight(issues))

\* llmClient.sendToLLM on the result of sendToGroq
sendToLLM(result) ==
    [result EXCEPT !.response.risk_score =
                       calculateDeterministicRiskScore(result.response.issues)]

\* llmClient.sendBatchToLLM: one entry per prompt, a failed call leaves a
\* failed entry.
sendBatchToLLM(units) ==
    [k \in 1..Len(units) |->
        IF units[k].failed THEN [failed |-> TRUE]
        ELSE sendToLLM([failed |-> FALSE, response |-> units[k].response,
                        usage |-> units[k].usage])]

\* Parsed content that is falsy in JavaScript (the JSON values false, 0, "")
FalsyContent == [falsy |-> TRUE]

\* responses.filter(r => !r.failed && r.response)
RECURSIVE Successful(_)
Successful(responses) ==
    IF responses = <<>> THEN <<>>
    ELSE IF ~Head(responses).failed /\ Head(responses).response # FalsyContent
        THEN <<Head(responses)>> \o Successful(Tail(responses))
        ELSE Successful(Tail(responses))

RECURSIVE AllIssues(_)
AllIssues(successful) ==
    IF successful = <<>> THEN <<>>
    ELSE Head(successful).response.issues \o AllIssues(Tail(successful))

RECURSIVE Summaries(_)
Summaries(successful) ==
    IF successful = <<>> THEN <<>>
    ELSE <<Head(successful).response.summary>> \o Summaries(Tail(successful))

\* totalPromptTokens, summed over the successful responses
RECURSIVE PromptTokens(_)
PromptTokens(successful) ==
    IF successful = <<>> THEN 0
    ELSE Head(successful).usage + PromptTokens(Tail(successful))

\* `${issue.file}-${issue.line}-${issue.message}`
IssueKey(issue) ==
    issue.file \o "-" \o ToString(issue.line) \o "-" \o issue.message

\* uniqueIssuesMap after Map.set of every issue in order: a key keeps the
\* position of its first issue and the value of its last.
RECURSIVE UniqueIssues(_)
UniqueIssues(allIssues) ==
    IF allIssues = <<>> THEN <<>>
    ELSE
        LET before == UniqueIssues(SubSeq(allIssues, 1, Len(allIssues) - 1))
            issue == allIssues[Len(allIssues)]
        IN  IF \E k \in 1..Len(before) : IssueKey(before[k]) = IssueKey(issue)
            THEN [k \in 1..Len(before) |->
                     IF IssueKey(before[k]) = IssueKey(issue) THEN issue
                     ELSE before[k]]
            ELSE Append(before, issue)

Null == [isNull |-> TRUE]

\* An aggregateJSONResponses without its early return: no successful response
\* gives a review without findings.
aggregateJSONResponses_EmptyOnNone(responses) ==
    LET successful == Successful(responses)
    IN  [isNull |-> FALSE,
         summary |-> Summaries(successful),
         issues |-> UniqueIssues(AllIssues(successful)),
         usage |-> PromptTokens(successful)]

\* aggregateJSONResponses
aggregateJSONResponses(responses) ==
    LET successful == Successful(responses)
    IN  IF Len(successful) = 0 THEN Null
        ELSE [isNull |-> FALSE,
              summary |-> Summaries(successful),
              issues |-> UniqueIssues(AllIssues(successful)),
              usage |-> PromptTokens(successful)]

\* The batch worker's recalculation on the aggregated issues
WorkerRiskScore(aggregated) == Min(ScoreCap, TotalWeight(aggregated.issues))

\* storage.saveReviewHistory: the review document
SavedReview(llmResponse) ==
    [summary |-> llmResponse.summary,
     riskScore |-> llmResponse.risk_score,
     status |-> "completed",
     issues |-> llmResponse.issues]

\* The comment body the batch worker posts
CommentBody(aggregated) ==
    [riskScore |-> aggregated.risk_score,
     summary |-> aggregated.summary,
     issuesFound |-> Len(aggregated.issues),
     issues |-> aggregated.issues]

\* ---- two runs on model responses that differ in risk_score only -------------

SeqsUpTo(S, n) == UNION {[1..k -> S] : k \in 0..n}

\* risk_score values the model may return
ModelScores == {0, ScoreCap}

Unset == [unset |-> TRUE]

\* Review path: issues as the analyzeDiff prompt asks for them, and the
\* severity "critical" the model may answer with all the same.
ReviewIssues ==
    {[category |-> "security", severity |-> "high"],
     [category |-> "security", severity |-> "critical"],
     [category |-> "Bug", severity |-> "High"],
     [category |-> "performance", severity |-> "Medium"],
     [category |-> "quality", severity |-> "low"],
     [category |-> "quality", severity |-> "high"]}

\* No policy document, or one with the default or a lower threshold and the
\* default or a lower issue count.
Policies ==
    {NoPolicy} \cup
    [exists : {TRUE},
     blockRiskThreshold : {DefaultBlockRiskThreshold, 20},
     blockOnHighSecurity : BOOLEAN,
     warnOnIssueCount : {DefaultWarnOnIssueCount, 1}]

Parsed(score, issues) ==
    [summary |-> "summary", risk_score |-> score, issues |-> issues]

NoReviewOutput ==
    [analysis |-> Unset, policyDecision |-> Unset, review |-> Unset,
     posted |-> Unset]

ReviewInputs ==
    {[fn |-> "processReview", stage |-> "parsed", policy |-> policy,
      inA |-> Parsed(a, issues), inB |-> Parsed(b, issues),
      outA |-> NoReviewOutput, outB |-> NoReviewOutput] :
        policy \in Policies, a \in ModelScores, b \in ModelScores,
        issues \in SeqsUpTo(ReviewIssues, MaxIssues)}

\* Batch path: issues as the sendToGroq prompt asks for them; a unit is one
\* per-file prompt, its call failed or answered with at most one issue.
BatchIssues ==
    [file : {"a.js"}, line : {1}, message : {"m1", "m2", "m3"},
     severity : {"Critical", "high"}]

Unit(callFailed, score, issues) ==
    [failed |-> callFailed,
     response |-> [summary |-> "summary", risk_score |-> score,
                   issues |-> issues],
     usage |-> 1]

\* The same unit in both runs, up to the model's risk_score.
UnitPairs ==
    {<<Unit(TRUE, 0, <<>>), Unit(TRUE, 0, <<>>)>>} \cup
    {<<Unit(FALSE, a, issues), Unit(FALSE, b, issues)>> :
        a \in ModelScores, b \in ModelScores,
        issues \in SeqsUpTo(BatchIssues, 1)}

NoBatchOutput ==
    [responses |-> Unset, aggregated |-> Unset, saved |-> Unset,
     comment |-> Unset]

BatchInputs ==
    {[fn |-> "batch", stage |-> "units", commentBot |-> commentBot,
      inA |-> [k \in 1..Len(pairs) |-> pairs[k][1]],
      inB |-> [k \in 1..Len(pairs) |-> pairs[k][2]],
      outA |-> NoBatchOutput, outB |-> NoBatchOutput] :
        commentBot \in BOOLEAN,
        pairs \in SeqsUpTo(UnitPairs, MaxUnits) \ {<<>>}}

RiskInit ==
    /\ PipelineInit
    /\ probe \in ReviewInputs \cup BatchInputs

\* Both runs take the same step.
Both(stage, field, resultA, resultB) ==
    probe' = [probe EXCEPT !.stage = stage,
                           !.outA[field] = resultA,
                           !.outB[field] = resultB]

\* processReview step 4: analyzeDiff returns
AnalyzeDiffStep ==
    /\ probe.fn = "processReview" /\ probe.stage = "parsed"
    /\ Both("analysis", "analysis",
            analyzeDiff(probe.inA), analyzeDiff(probe.inB))
    /\ UNCHANGED pipelineVars

\* processReview step 5: evaluatePolicy returns
EvaluatePolicyStep ==
    /\ probe.fn = "processReview" /\ probe.stage = "analysis"
    /\ Both("policy", "policyDecision",
            evaluatePolicy(probe.policy, probe.outA.analysis),
            evaluatePolicy(probe.policy, probe.outB.analysis))
    /\ UNCHANGED pipelineVars

\* processReview step 6: Review.create
ReviewCreateStep ==
    /\ probe.fn = "processReview" /\ probe.stage = "policy"
    /\ LET f(out) == ReviewDocument(out.analysis, out.policyDecision)
       IN  Both("saved", "review", f(probe.outA), f(probe.outB))
    /\ UNCHANGED pipelineVars

\* processReview step 8: postReview
PostReviewStep ==
    /\ probe.fn = "processReview" /\ probe.stage = "saved"
    /\ LET f(out) == PostedReview(out.analysis, out.policyDecision)
       IN  Both("posted", "posted", f(probe.outA), f(probe.outB))
    /\ UNCHANGED pipelineVars

\* batch worker: sendBatchToLLM returns
SendBatchStep ==
    /\ probe.fn = "batch" /\ probe.stage = "units"
    /\ Both("responses", "responses",
            sendBatchToLLM(probe.inA), sendBatchToLLM(probe.inB))
    /\ UNCHANGED pipelineVars

\* batch worker: aggregateJSONResponses; null ends the job
AggregateStep ==
    /\ probe.fn = "batch" /\ probe.stage = "responses"
    /\ LET aggregatedA == aggregateJSONResponses(probe.outA.responses)
           aggregatedB == aggregateJSONResponses(probe.outB.responses)
       IN  Both(IF aggregatedA.isNull THEN "returned" ELSE "aggregated",
                "aggregated", aggregatedA, aggregatedB)
    /\ UNCHANGED pipelineVars

\* batch worker: risk score of the aggregated issues, then saveReviewHistory
SaveReviewHistoryStep ==
    /\ probe.fn = "batch" /\ probe.stage = "aggregated"
    /\ LET scored(out) ==
               [isNull |-> FALSE, summary |-> out.aggregated.summary,
                issues |-> out.aggregated.issues,
                usage |-> out.aggregated.usage,
                risk_score |-> WorkerRiskScore(out.aggregated)]
       IN  probe' = [probe EXCEPT
               !.stage = "saved",
               !.outA.aggregated = scored(probe.outA),
               !.outB.aggregated = scored(probe.outB),
               !.outA.saved = SavedReview(scored(probe.outA)),
               !.outB.saved = SavedReview(scored(probe.outB))]
    /\ UNCHANGED pipelineVars

\* batch worker: postReviewComment when COMMENT_BOT_ENABLED is 'true'
PostCommentStep ==
    /\ probe.fn = "batch" /\ probe.stage = "saved" /\ probe.commentBot
    /\ Both("commented", "comment",
            CommentBody(probe.outA.aggregated),
            CommentBody(probe.outB.aggregated))
    /\ UNCHANGED pipelineVars

RiskNext ==
    \/ AnalyzeDiffStep
    \/ EvaluatePolicyStep
    \/ ReviewCreateStep
    \/ PostReviewStep
    \/ SendBatchStep
    \/ AggregateStep
    \/ SaveReviewHistoryStep
    \/ PostCommentStep

RiskSpec == RiskInit /\ [][RiskNext]_vars

\* ==== The batch worker: one job, call by call ===================================

DefaultDelayMs == 1000       \* part_016:133  delayBetweenCalls = 1000

\* filename of a per-file prompt; two prompts of one file are its chunks
Filenames == {"a.js", "b.js"}

\* The job as the worker's processor receives it.
WorkerJob(prompts, delayBetweenCalls, commentBot) ==
    [fn |-> "batchWorker", stage |-> "start", job |-> "active",
     prompts |-> prompts, delayBetweenCalls |-> delayBetweenCalls,
     commentBot |-> commentBot,
     i |-> 0, sent |-> <<>>, delays |-> 0, responses |-> <<>>,
     aggregated |-> Unset, saved |-> Unset, comment |-> Unset]

WorkerJobs ==
    {WorkerJob(prompts, delayBetweenCalls, commentBot) :
        prompts \in SeqsUpTo(Filenames, MaxUnits),
        delayBetweenCalls \in {0, DefaultDelayMs},
        commentBot \in BOOLEAN}

\* Contents the model may answer a batch prompt with.
BatchAnswers ==
    {[summary |-> "summary", risk_score |-> score, issues |-> issues] :
        score \in ModelScores, issues \in SeqsUpTo(BatchIssues, 1)}

BatchInit ==
    /\ PipelineInit
    /\ probe \in WorkerJobs

\* The worker after sendBatchToLLM returned: aggregateJSONResponses, return
\* on null, else the risk score and the call of saveReviewHistory.
AfterBatch(p) ==
    LET aggregated == aggregateJSONResponses(p.responses)
    IN  IF aggregated.isNull
        THEN [p EXCEPT !.aggregated = aggregated, !.stage = "done",
                       !.job = "completed"]
        ELSE [p EXCEPT !.stage = "saving",
                       !.aggregated =
                           [isNull |-> FALSE, summary |-> aggregated.summary,
                            issues |-> aggregated.issues,
                            usage |-> aggregated.usage,
                            risk_score |-> WorkerRiskScore(aggregated)]]

\* NextCall_StopsAfterFailure: the loop ends at the first failed call
NextCall_StopsAfterFailure(p, k) ==
    IF k <= Len(p.prompts) /\ (k = 1 \/ ~p.responses[k - 1].failed)
    THEN [p EXCEPT !.i = k, !.sent = Append(@, k), !.stage = "waiting"]
    ELSE AfterBatch(p)

\* sendBatchToLLM at iteration k: the call for prompts[k] is sent, or the
\* loop is over.
NextCall(p, k) ==
    IF k <= Len(p.prompts)
    THEN [p EXCEPT !.i = k, !.sent = Append(@, k), !.stage = "waiting"]
    ELSE AfterBatch(p)

\* The processor up to the first LLM call: repository settings, diff and
\* files, prompts.
WorkerStart(res) ==
    /\ probe.fn = "batchWorker" /\ probe.stage = "start"
    /\ probe' =
        CASE res = "disabled" ->
                [probe EXCEPT !.stage = "done", !.job = "completed"]
          [] res = "error" ->
                [probe EXCEPT !.stage = "done", !.job = "failed"]
          [] OTHER -> NextCall(probe, 1)
    /\ UNCHANGED pipelineVars

\* sendToGroq's request answers: an HTTP error or unparsable content throws
\* and sendBatchToLLM records a failed entry; parsed content goes through
\* sendToLLM and is pushed, followed by the delay if more prompts remain.
GroqAnswer(kind, parsed) ==
    /\ probe.fn = "batchWorker" /\ probe.stage = "waiting"
    /\ LET filename == probe.prompts[probe.i]
           result == sendToLLM([failed |-> FALSE, response |-> parsed,
                                usage |-> 1])
           entry == IF kind = "json"
                    THEN [failed |-> FALSE, filename |-> filename,
                          response |-> result.response,
                          usage |-> result.usage]
                    ELSE [failed |-> TRUE, filename |-> filename,
                          error |-> kind]
           pushed == [probe EXCEPT !.responses = Append(@, entry)]
       IN  IF /\ kind = "json"
              /\ probe.i < Len(probe.prompts)
              /\ probe.delayBetweenCalls > 0
           THEN probe' = [pushed EXCEPT !.stage = "delay"]
           ELSE probe' = NextCall(pushed, probe.i + 1)
    /\ UNCHANGED pipelineVars

\* The delay between two calls has passed.
DelayElapsed ==
    /\ probe.fn = "batchWorker" /\ probe.stage = "delay"
    /\ probe' = NextCall([probe EXCEPT !.delays = @ + 1], probe.i + 1)
    /\ UNCHANGED pipelineVars

\* saveReviewHistory answers; it logs and swallows its own errors.
SaveHistoryAnswer(ok) ==
    /\ probe.fn = "batchWorker" /\ probe.stage = "saving"
    /\ LET saved == IF ok THEN SavedReview(probe.aggregated) ELSE Unset
       IN  probe' =
            IF probe.commentBot
            THEN [probe EXCEPT !.saved = saved, !.stage = "commenting"]
            ELSE [probe EXCEPT !.saved = saved, !.stage = "done",
                               !.job = "completed"]
    /\ UNCHANGED pipelineVars

\* postReviewComment answers; it logs and swallows its own errors.
CommentAnswer(ok) ==
    /\ probe.fn = "batchWorker" /\ probe.stage = "commenting"
    /\ probe' = [probe EXCEPT
            !.comment = IF ok THEN CommentBody(probe.aggregated) ELSE Unset,
            !.stage = "done", !.job = "completed"]
    /\ UNCHANGED pipelineVars

BatchNext ==
    \/ \E res \in {"disabled", "error", "prompts"} : WorkerStart(res)
    \/ \E kind \in {"json", "garbage", "error"}, parsed \in BatchAnswers :
            GroqAnswer(kind, parsed)
    \/ DelayElapsed
    \/ \E ok \in BOOLEAN : SaveHistoryAnswer(ok)
    \/ \E ok \in BOOLEAN : CommentAnswer(ok)

BatchSpec == BatchInit /\ [][BatchNext]_vars

\* ==== LLMService.analyzeDiff: one call, request by request ======================

\* Contents the model may answer the review prompt with.
ParsedAnswers ==
    {Parsed(score, issues) :
        score \in ModelScores, issues \in SeqsUpTo(ReviewIssues, MaxIssues)}

\* analyzeDiff(prompt) has been called with the default retryCount.
AnalyzeCalls ==
    {[fn |-> "analyzeDiff", stage |-> "apiKey", prompt |-> prompt,
      retryCount |-> DefaultRetryCount, requests |-> <<>>, answers |-> <<>>,
      result |-> Unset] : prompt \in {"prompt a.js", "No changes found to review."}}

AnalyzeInit ==
    /\ PipelineInit
    /\ probe \in AnalyzeCalls

\* analyzeDiff reads GROQ_API_KEY and sends the completion request.
AnalyzeSend(hasKey) ==
    /\ probe.fn = "analyzeDiff" /\ probe.stage = "apiKey"
    /\ probe' =
        IF hasKey
        THEN [probe EXCEPT !.stage = "waiting",
                           !.requests = Append(@, probe.prompt)]
        ELSE [probe EXCEPT !.stage = "rejected",
                           !.result = "GROQ_API_KEY not found"]
    /\ UNCHANGED pipelineVars

\* Kinds of answer to the completion request: "json" parses and has a list
\* of issues; "malformed" parses but calculateRiskScore throws on it (the
\* content is null, or issues is not an array of objects); "garbage" does
\* not parse; "error" is a response that is not ok.
AnswerKinds == {"json", "malformed", "garbage", "error"}

\* What the try block around JSON.parse and calculateRiskScore throws on.
ThrowsInTry(kind) == kind \in {"malformed", "garbage"}

\* The completion request answers: an API error rejects; content that parses
\* and scores resolves with the recalculated score; a throw in the try
\* block is retried with the same prompt while MayRetry, else rejects.
AnalyzeAnswer(kind, parsed) ==
    /\ probe.fn = "analyzeDiff" /\ probe.stage = "waiting"
    /\ LET heard == [probe EXCEPT !.answers = Append(@, kind)]
       IN  probe' =
            CASE kind = "json" ->
                    [heard EXCEPT !.stage = "resolved",
                                  !.result = analyzeDiff(parsed)]
              [] ThrowsInTry(kind) /\ MayRetry(probe.retryCount) ->
                    [heard EXCEPT !.retryCount = @ - 1,
                                  !.requests = Append(@, probe.prompt)]
              [] ThrowsInTry(kind) /\ ~MayRetry(probe.retryCount) ->
                    [heard EXCEPT !.stage = "rejected",
                                  !.result =
                                    "Failed to parse structured JSON from LLM"]
              [] OTHER ->
                    [heard EXCEPT !.stage = "rejected",
                                  !.result = "LLM API Error"]
    /\ UNCHANGED pipelineVars

AnalyzeNext ==
    \/ \E hasKey \in BOOLEAN : AnalyzeSend(hasKey)
    \/ \E kind \in AnswerKinds, parsed \in ParsedAnswers :
            AnalyzeAnswer(kind, parsed)

AnalyzeSpec == AnalyzeInit /\ [][AnalyzeNext]_vars

\* ---- diffCleaner.js -------------------------------------------------------------
\* A string is a non-empty sequence of lines (what split('\n') gives) and a
\* line a sequence of tokens: single characters, and the multi-character
\* pieces the regular expressions of diffCleaner look for.
MaxDiffLines == 4       \* lines of a raw diff

EmptyString == << <<>> >>

\* The lines a raw diff is made of: the git file boundary, the same line
\* without its "diff --git " prefix, the two file headers, a hunk header,
\* added lines (plain, text starting with '-', text starting with '@@'), a
\* deleted line, a context line, a whitespace-only line and an empty line.
DiffLines ==
    {<<"diff --git ", "a/", "f.js", " ", "b/", "f.js">>,
     <<"a/", "f.js", " ", "b/", "f.js">>,
     <<"-", "-", "-", " ", "a/", "f.js">>,
     <<"+", "+", "+", " ", "b/", "f.js">>,
     <<"@@", " ", "-1 +1", " ", "@@">>,
     <<"+", "x">>,
     <<"+", "-", "x">>,
     <<"+", "@@", "x">>,
     <<"-", "x">>,
     <<" ", "x">>,
     <<" ">>,
     <<>>}

\* String.prototype.startsWith
startsWith(line, prefix) ==
    /\ Len(line) >= Len(prefix)
    /\ SubSeq(line, 1, Len(prefix)) = prefix

\* The number of characters of a token
TokenLength(token) ==
    CASE token = "diff --git " -> 11
      [] token = "-1 +1" -> 5
      [] token = "f.js" -> 4
      [] token \in {"a/", "b/", "@@"} -> 2
      [] OTHER -> 1

RECURSIVE LineLength(_)
LineLength(line) ==
    IF line = <<>> THEN 0 ELSE TokenLength(Head(line)) + LineLength(Tail(line))

\* String.prototype.length: the characters of the lines and the newlines
\* between them
RECURSIVE StringLength(_)
StringLength(text) ==
    IF Len(text) = 1
    THEN LineLength(text[1])
    ELSE LineLength(Head(text)) + 1 + StringLength(Tail(text))

IsWhitespace(line) == \A k \in 1..Len(line) : line[k] = " "

RECURSIVE TrimLineStart(_)
TrimLineStart(line) ==
    IF line # <<>> /\ Head(line) = " " THEN TrimLineStart(Tail(line)) ELSE line

RECURSIVE TrimLineEnd(_)
TrimLineEnd(line) ==
    IF line # <<>> /\ line[Len(line)] = " "
    THEN TrimLineEnd(SubSeq(line, 1, Len(line) - 1))
    ELSE line

RECURSIVE TrimStart(_)
TrimStart(text) ==
    IF IsWhitespace(Head(text))
    THEN IF Len(text) = 1 THEN EmptyString ELSE TrimStart(Tail(text))
    ELSE <<TrimLineStart(Head(text))>> \o Tail(text)

RECURSIVE TrimEnd(_)
TrimEnd(text) ==
    LET n == Len(text) IN
    IF IsWhitespace(text[n])
    THEN IF n = 1 THEN EmptyString ELSE TrimEnd(SubSeq(text, 1, n - 1))
    ELSE SubSeq(text, 1, n - 1) \o <<TrimLineEnd(text[n])>>

\* String.prototype.trim
trim(text) == TrimEnd(TrimStart(text))

\* Array.prototype.join('\n')
join(lines) == IF lines = <<>> THEN EmptyString ELSE lines

\* detectLanguage: the extension of the file name, looked up in languageMap
detectLanguage(filename) ==
    IF filename # <<>> /\ filename[Len(filename)] = "f.js"
    THEN "javascript"
    ELSE "unknown"

\* The loop of cleanFileDiff: file headers and hunk headers are skipped,
\* inside a hunk added lines are kept without their '+', context lines are
\* kept once something was kept, everything else is dropped.
RECURSIVE CleanLines_KeepsDeletions(_, _, _)
CleanLines_KeepsDeletions(lines, inHunk, cleanedLines) ==
    IF lines = <<>> THEN cleanedLines
    ELSE LET line == Head(lines) IN
         IF startsWith(line, <<"-", "-", "-">>) \/ startsWith(line, <<"+", "+", "+">>)
         THEN CleanLines_KeepsDeletions(Tail(lines), inHunk, cleanedLines)
         ELSE IF startsWith(line, <<"@@">>)
         THEN CleanLines_KeepsDeletions(Tail(lines), TRUE, cleanedLines)
         ELSE IF inHunk /\ (startsWith(line, <<"+">>) \/ startsWith(line, <<"-">>))
         THEN CleanLines_KeepsDeletions(Tail(lines), inHunk,
                                        Append(cleanedLines, Tail(line)))
         ELSE IF inHunk /\ startsWith(line, <<" ">>) /\ Len(cleanedLines) > 0
         THEN CleanLines_KeepsDeletions(Tail(lines), inHunk,
                                        Append(cleanedLines, Tail(line)))
         ELSE CleanLines_KeepsDeletions(Tail(lines), inHunk, cleanedLines)

RECURSIVE CleanLines(_, _, _)
CleanLines(lines, inHunk, cleanedLines) ==
    IF lines = <<>> THEN cleanedLines
    ELSE LET line == Head(lines) IN
         IF startsWith(line, <<"-", "-", "-">>) \/ startsWith(line, <<"+", "+", "+">>)
         THEN CleanLines(Tail(lines), inHunk, cleanedLines)
         ELSE IF startsWith(line, <<"@@">>)
         THEN CleanLines(Tail(lines), TRUE, cleanedLines)
         ELSE IF inHunk /\ startsWith(line, <<"+">>)
         THEN CleanLines(Tail(lines), inHunk, Append(cleanedLines, Tail(line)))
         ELSE IF inHunk /\ startsWith(line, <<" ">>) /\ Len(cleanedLines) > 0
         THEN CleanLines(Tail(lines), inHunk, Append(cleanedLines, Tail(line)))
         ELSE CleanLines(Tail(lines), inHunk, cleanedLines)

cleanFileDiff(fileDiff) ==
    IF fileDiff = EmptyString
    THEN EmptyString
    ELSE trim(join(CleanLines(fileDiff, FALSE, <<>>)))

\* The lines of a text that start with the file boundary "diff --git "
Boundaries(text) ==
    {k \in 1..Len(text) : startsWith(text[k], <<"diff --git ">>)}

\* rawDiff.split(/^diff --git /m): the text before the first boundary, then
\* one piece per boundary, from behind the boundary up to the next one.  A
\* piece that a boundary follows ends with the newline before that boundary.
Piece(text, from, first) ==
    LET later == {k \in Boundaries(text) : k >= from}
        stop == IF later = {} THEN Len(text) + 1
                ELSE CHOOSE k \in later : \A j \in later : k <= j
        body == first \o SubSeq(text, from, stop - 1)
    IN  IF later = {} THEN join(body) ELSE Append(body, <<>>)

RECURSIVE PiecesFrom(_, _)
PiecesFrom(text, k) ==
    IF k > Len(text) THEN <<>>
    ELSE IF k \in Boundaries(text)
    THEN <<Piece(text, k + 1, <<Tail(text[k])>>)>> \o PiecesFrom(text, k + 1)
    ELSE PiecesFrom(text, k + 1)

diffSections(rawDiff) == <<Piece(rawDiff, 1, <<>>)>> \o PiecesFrom(rawDiff, 1)

\* A line /^a\/(.+?)\s+b\/(.+?)$/m matches, and where its second name starts
NameStarts(line) ==
    IF startsWith(line, <<"a/">>)
    THEN {j \in 5..Len(line) : line[j - 2] = " " /\ line[j - 1] = "b/"}
    ELSE {}

\* section.match(/^a\/(.+?)\s+b\/(.+?)$/m): the 'b' name of the first line
\* that matches, <<>> for no match
filenameMatch(section) ==
    LET hits == {k \in 1..Len(section) : NameStarts(section[k]) # {}} IN
    IF hits = {} THEN <<>>
    ELSE LET k == CHOOSE h \in hits : \A g \in hits : h <= g
             j == CHOOSE s \in NameStarts(section[k]) :
                        \A t \in NameStarts(section[k]) : s <= t
         IN  SubSeq(section[k], j, Len(section[k]))

\* section.match(/@@[\s\S]*$/m): the section from its first "@@" on; the
\* empty string for no match
patchMatch(section) ==
    LET hits == {k \in 1..Len(section) :
                    \E j \in 1..Len(section[k]) : section[k][j] = "@@"}
    IN  IF hits = {} THEN EmptyString
        ELSE LET k == CHOOSE h \in hits : \A g \in hits : h <= g
                 at == {j \in 1..Len(section[k]) : section[k][j] = "@@"}
                 j == CHOOSE s \in at : \A t \in at : s <= t
             IN  <<SubSeq(section[k], j, Len(section[k]))>>
                     \o SubSeq(section, k + 1, Len(section))

RECURSIVE FileDiffsOf(_)
FileDiffsOf(sections) ==
    IF sections = <<>> THEN <<>>
    ELSE LET section == Head(sections)
             rest == FileDiffsOf(Tail(sections))
         IN  IF trim(section) = EmptyString THEN rest
             ELSE IF filenameMatch(section) = <<>> THEN rest
             ELSE IF patchMatch(section) = EmptyString THEN rest
             ELSE <<[filename |-> filenameMatch(section),
                     patch |-> patchMatch(section)]>> \o rest

extractFileDiffs(rawDiff) ==
    IF trim(rawDiff) = EmptyString
    THEN <<>>
    ELSE FileDiffsOf(diffSections(rawDiff))

\* The loop of cleanAndStructureDiff over the file diffs: a file whose
\* cleaned changes are empty is skipped.
RECURSIVE CleanedFiles(_)
CleanedFiles(fileDiffs) ==
    IF fileDiffs = <<>> THEN <<>>
    ELSE LET fileDiff == Head(fileDiffs)
             cleanedChanges == cleanFileDiff(fileDiff.patch)
             rest == CleanedFiles(Tail(fileDiffs))
         IN  IF trim(cleanedChanges) = EmptyString THEN rest
             ELSE <<[filename |-> fileDiff.filename,
                     language |-> detectLanguage(fileDiff.filename),
                     changes |-> cleanedChanges]>> \o rest

RECURSIVE TotalChanges(_)
TotalChanges(cleanedFiles) ==
    IF cleanedFiles = <<>> THEN 0
    ELSE StringLength(Head(cleanedFiles).changes) + TotalChanges(Tail(cleanedFiles))

\* The object cleanAndStructureDiff returns after its loop
StructuredDiff(cleanedFiles) ==
    [files |-> cleanedFiles,
     totalFiles |-> Len(cleanedFiles),
     totalChanges |-> TotalChanges(cleanedFiles)]

cleanAndStructureDiff(rawDiff) ==
    IF trim(rawDiff) = EmptyString
    THEN [files |-> <<>>, totalFiles |-> 0, totalChanges |-> 0]
    ELSE StructuredDiff(CleanedFiles(extractFileDiffs(rawDiff)))

\* ---- one call of cleanAndStructureDiff -----------------------------------------
RawDiffs ==
    {EmptyString} \cup UNION {[1..n -> DiffLines] : n \in 1..MaxDiffLines}

DiffCalls ==
    {[fn |-> "cleanAndStructureDiff", stage |-> "called", rawDiff |-> rawDiff,
      fileDiffs |-> <<>>, result |-> Unset] : rawDiff \in RawDiffs}

DiffInit ==
    /\ PipelineInit
    /\ probe \in DiffCalls

\* cleanAndStructureDiff up to the loop over the file diffs
ExtractStep ==
    /\ probe.fn = "cleanAndStructureDiff" /\ probe.stage = "called"
    /\ probe' =
        IF trim(probe.rawDiff) = EmptyString
        THEN [probe EXCEPT !.stage = "returned",
                           !.result = cleanAndStructureDiff(probe.rawDiff)]
        ELSE [probe EXCEPT !.stage = "extracted",
                           !.fileDiffs = extractFileDiffs(probe.rawDiff)]
    /\ UNCHANGED pipelineVars

\* the loop over the file diffs and the return
CleanStep ==
    /\ probe.fn = "cleanAndStructureDiff" /\ probe.stage = "extracted"
    /\ probe' = [probe EXCEPT !.stage = "returned",
                              !.result = StructuredDiff(CleanedFiles(probe.fileDiffs))]
    /\ UNCHANGED pipelineVars

DiffNext == ExtractStep \/ CleanStep

DiffSpec == DiffInit /\ [][DiffNext]_vars

\* ==== aggregateJSONResponses: one call ==============================================
AggIssue(file, line, message, severity, title) ==
    [file |-> file, line |-> line, message |-> message, severity |-> severity,
     title |-> title]

\* The same finding reported twice with different severity and title
DuplicateIssues ==
    {AggIssue("a.js", 1, "m", "High", "first"),
     AggIssue("a.js", 1, "m", "Low", "second")}

\* Findings that differ from those in the line, in the file or in the
\* message
AggIssues ==
    DuplicateIssues \cup
    {AggIssue("a.js", 2, "m", "High", "first"),
     AggIssue("b.js", 1, "m", "High", "first"),
     AggIssue("a.js", 1, "n", "High", "first"),
     AggIssue("a.js-1", 1, "m", "High", "first"),
     AggIssue("a.js", 1, "1-m", "High", "first")}

\* The issues of one response: none, one finding, or two reports of the same
\* finding
UnitIssueLists ==
    {<<>>} \cup {<<issue>> : issue \in AggIssues}
        \cup {<<first, second>> : first \in DuplicateIssues,
                                  second \in DuplicateIssues}

\* An entry of the array sendBatchToLLM returns: a failed call, falsy
\* content, or a review.
AggUnits ==
    {[failed |-> TRUE, filename |-> "a.js", error |-> "error"],
     [failed |-> FALSE, filename |-> "a.js", response |-> FalsyContent,
      usage |-> 1]} \cup
    {[failed |-> FALSE, filename |-> "a.js",
      response |-> [summary |-> "summary", risk_score |-> 0, issues |-> issues],
      usage |-> 1] : issues \in UnitIssueLists}

AggregateCalls ==
    {[fn |-> "aggregateJSONResponses", stage |-> "called",
      responses |-> responses, successful |-> <<>>, result |-> Unset] :
        responses \in SeqsUpTo(AggUnits, MaxUnits)}

AggregateInit ==
    /\ PipelineInit
    /\ probe \in AggregateCalls

\* responses.filter and the early return
FilterStep ==
    /\ probe.fn = "aggregateJSONResponses" /\ probe.stage = "called"
    /\ LET successful == Successful(probe.responses) IN
       probe' =
        IF Len(successful) = 0
        THEN [probe EXCEPT !.stage = "returned",
                           !.result = aggregateJSONResponses(probe.responses)]
        ELSE [probe EXCEPT !.stage = "filtered", !.successful = successful]
    /\ UNCHANGED pipelineVars

\* the two forEach loops and the return
CollectStep ==
    /\ probe.fn = "aggregateJSONResponses" /\ probe.stage = "filtered"
    /\ probe' = [probe EXCEPT !.stage = "returned",
                              !.result = aggregateJSONResponses(probe.responses)]
    /\ UNCHANGED pipelineVars

AggregateNext == FilterStep \/ CollectStep

AggregateSpec == AggregateInit /\ [][AggregateNext]_vars

\* ==== The scoring functions on one list of findings ================================
\* Findings as the scoring functions read them: category (absent: "") and
\* severity, spelled as in the analyzeDiff prompt or as in the sendToGroq
\* prompt.
ScoreIssues ==
    {[category |-> "", severity |-> "high"],
     [category |-> "", severity |-> "low"],
     [category |-> "security", severity |-> "high"],
     [category |-> "bug", severity |-> "High"],
     [category |-> "performance", severity |-> "medium"],
     [category |-> "quality", severity |-> "Critical"]}

\* The bijections of 1..n
Reorderings(n) ==
    {f \in [1..n -> 1..n] : \A i \in 1..n : \A j \in 1..n : f[i] = f[j] => i = j}

NoScores == [llmService |-> Unset, llmClient |-> Unset, worker |-> Unset]

\* A list of findings and the same findings in another order
ScoreCalls ==
    UNION {{[fn |-> "score", stage |-> "input", issues |-> issues,
             reordered |-> [k \in 1..Len(issues) |-> issues[f[k]]],
             scores |-> NoScores, scoresReordered |-> NoScores] :
                f \in Reorderings(Len(issues))} :
           issues \in SeqsUpTo(ScoreIssues, MaxIssues)}

ScoreInit ==
    /\ PipelineInit
    /\ probe \in ScoreCalls

\* LLMService.calculateRiskScore on both lists
LlmServiceScoreStep ==
    /\ probe.fn = "score" /\ probe.stage = "input"
    /\ probe' = [probe EXCEPT
            !.stage = "llmService",
            !.scores.llmService = calculateRiskScore(probe.issues),
            !.scoresReordered.llmService = calculateRiskScore(probe.reordered)]
    /\ UNCHANGED pipelineVars

\* llmClient's calculateDeterministicRiskScore on both lists
LlmClientScoreStep ==
    /\ probe.fn = "score" /\ probe.stage = "llmService"
    /\ probe' = [probe EXCEPT
            !.stage = "llmClient",
            !.scores.llmClient = calculateDeterministicRiskScore(probe.issues),
            !.scoresReordered.llmClient =
                calculateDeterministicRiskScore(probe.reordered)]
    /\ UNCHANGED pipelineVars

\* The batch worker's recalculation on both lists
WorkerScoreStep ==
    /\ probe.fn = "score" /\ probe.stage = "llmClient"
    /\ probe' = [probe EXCEPT
            !.stage = "scored",
            !.scores.worker = WorkerRiskScore([issues |-> probe.issues]),
            !.scoresReordered.worker =
                WorkerRiskScore([issues |-> probe.reordered])]
    /\ UNCHANGED pipelineVars

ScoreNext == LlmServiceScoreStep \/ LlmClientScoreStep \/ WorkerScoreStep

ScoreSpec == ScoreInit /\ [][ScoreNext]_vars

\* ==== tokenManager.js: prioritizeFiles ================================================
SensitiveFileRisk == 50      \* tokenManager.js:135
CoreFileRisk == 20           \* tokenManager.js:141
HugeChangeSize == 10000      \* tokenManager.js:146
HugeChangeRisk == 20         \* tokenManager.js:146
LargeChangeSize == 5000      \* tokenManager.js:147
LargeChangeRisk == 10        \* tokenManager.js:147
MediumChangeSize == 1000     \* tokenManager.js:148
MediumChangeRisk == 5        \* tokenManager.js:148
KeywordRisk == 15            \* tokenManager.js:153
FileRiskCap == 100           \* tokenManager.js:156

\* A file name is a sequence of parts; includes looks for one part
includes(parts, part) == \E k \in 1..Len(parts) : toLowerCase(parts[k]) = part

\* calculateFileRisk; the changes of a file are given by their length and
\* by the words they hold
calculateFileRisk(file) ==
    LET filename == file.filename
        changeSize == file.changes.length
        sensitive == \E part \in {".env", "config", "secret", "credential",
                                  "auth", "password"} : includes(filename, part)
        core == \E part \in {"/src/", "/lib/", "/app/", "/core/"} :
                    includes(filename, part)
        keyword == \E word \in {"password", "secret", "token", "api_key", "auth",
                                "credential"} : word \in file.changes.words
    IN  Min(FileRiskCap,
            (IF sensitive THEN SensitiveFileRisk ELSE 0)
          + (IF core THEN CoreFileRisk ELSE 0)
          + (IF changeSize > HugeChangeSize THEN HugeChangeRisk
             ELSE IF changeSize > LargeChangeSize THEN LargeChangeRisk
             ELSE IF changeSize > MediumChangeSize THEN MediumChangeRisk
             ELSE 0)
          + (IF keyword THEN KeywordRisk ELSE 0))

\* A sort that puts a file in front of the files of the same risk
RECURSIVE InsertByRisk_TiesFirst(_, _)
InsertByRisk_TiesFirst(file, sorted) ==
    IF sorted = <<>> THEN <<file>>
    ELSE IF calculateFileRisk(file) - calculateFileRisk(Head(sorted)) >= 0
    THEN <<file>> \o sorted
    ELSE <<Head(sorted)>> \o InsertByRisk_TiesFirst(file, Tail(sorted))

\* Where a stable sort by (a, b) => risk(b) - risk(a) puts a file among the
\* files sorted before it: behind every file of the same or a higher risk
RECURSIVE InsertByRisk(_, _)
InsertByRisk(file, sorted) ==
    IF sorted = <<>> THEN <<file>>
    ELSE IF calculateFileRisk(file) - calculateFileRisk(Head(sorted)) > 0
    THEN <<file>> \o sorted
    ELSE <<Head(sorted)>> \o InsertByRisk(file, Tail(sorted))

\* Array.prototype.sort with prioritizeFiles' comparator (stable)
RECURSIVE SortByRisk(_, _)
SortByRisk(files, sorted) ==
    IF files = <<>> THEN sorted
    ELSE SortByRisk(Tail(files), InsertByRisk(Head(files), sorted))

\* prioritizeFiles: the array passed in and the array returned, after the
\* call
prioritizeFiles(files) ==
    LET prioritized == files
    IN  [files |-> files, prioritized |-> SortByRisk(prioritized, <<>>)]

\* ---- one call of prioritizeFiles -----------------------------------------------
MaxFiles == 3

FileChange(filename, length, words) ==
    [filename |-> filename, changes |-> [length |-> length, words |-> words]]

FileChanges ==
    {FileChange(<<"/src/", "auth", ".js">>, 10, {}),
     FileChange(<<"Config", ".js">>, 10, {}),
     FileChange(<<"/lib/", "util", ".js">>, 10, {}),
     FileChange(<<"readme", ".md">>, HugeChangeSize + 1, {}),
     FileChange(<<"readme", ".md">>, 10, {"token"}),
     FileChange(<<"notes", ".md">>, 10, {})}

PrioritizeCalls ==
    {[fn |-> "prioritizeFiles", stage |-> "called", files |-> files,
      prioritized |-> Unset] : files \in SeqsUpTo(FileChanges, MaxFiles)}

PrioritizeInit ==
    /\ PipelineInit
    /\ probe \in PrioritizeCalls

\* const prioritized = [...files]
CopyFilesStep ==
    /\ probe.fn = "prioritizeFiles" /\ probe.stage = "called"
    /\ probe' = [probe EXCEPT !.stage = "copied", !.prioritized = probe.files]
    /\ UNCHANGED pipelineVars

\* prioritized.sort(...); return prioritized
SortFilesStep ==
    /\ probe.fn = "prioritizeFiles" /\ probe.stage = "copied"
    /\ LET after == prioritizeFiles(probe.files) IN
       probe' = [probe EXCEPT !.stage = "returned",
                              !.files = after.files,
                              !.prioritized = after.prioritized]
    /\ UNCHANGED pipelineVars

PrioritizeNext == CopyFilesStep \/ SortFilesStep

PrioritizeSpec == PrioritizeInit /\ [][PrioritizeNext]_vars

\* ==== tokenManager.js: chunkFileContent ===============================================
\* A content is a non-empty sequence of lines (the text between its newline
\* characters); a line is a sequence of characters.  The code looks at no
\* character but the newline and, in trim, the whitespace, so a character
\* is given by its place in the content and by whether it is whitespace.
CharsPerToken == 4           \* tokenManager.js:5   TOKENS_PER_CHAR = 0.25

\* String.prototype.length of a content
RECURSIVE ContentLength(_)
ContentLength(content) ==
    IF Len(content) = 1 THEN Len(content[1])
    ELSE Len(Head(content)) + 1 + ContentLength(Tail(content))

\* estimateTokens: Math.ceil(text.length * 0.25), 0 for the empty string
estimateTokens(text) ==
    (ContentLength(text) + CharsPerToken - 1) \div CharsPerToken

\* content.trim().length === 0
IsBlank(content) ==
    \A i \in 1..Len(content) : \A j \in 1..Len(content[i]) : content[i][j].space

\* Pieces that end one character early
RECURSIVE LineChunks_EndEarly(_, _)
LineChunks_EndEarly(line, maxChars) ==
    IF Len(line) <= maxChars THEN << <<line>> >>
    ELSE << <<SubSeq(line, 1, maxChars - 1)>> >>
         \o LineChunks_EndEarly(SubSeq(line, maxChars + 1, Len(line)), maxChars)

\* The pieces of an over-long line: line.substring(i, i + maxChars) for
\* i = 0, maxChars, ...
RECURSIVE LineChunks(_, _)
LineChunks(line, maxChars) ==
    IF Len(line) <= maxChars THEN << <<line>> >>
    ELSE << <<SubSeq(line, 1, maxChars)>> >>
         \o LineChunks(SubSeq(line, maxChars + 1, Len(line)), maxChars)

\* The loop over the lines and the push of the remaining chunk
RECURSIVE ChunkLines(_, _, _, _, _)
ChunkLines(lines, maxTokens, chunks, currentChunk, currentTokens) ==
    IF lines = <<>>
    THEN IF Len(currentChunk) > 0 THEN Append(chunks, currentChunk) ELSE chunks
    ELSE LET line == Head(lines)
             lineTokens == estimateTokens(<<line>>)
         IN  IF lineTokens > maxTokens
             THEN ChunkLines(Tail(lines), maxTokens,
                      (IF Len(currentChunk) > 0
                       THEN Append(chunks, currentChunk) ELSE chunks)
                      \o LineChunks(line, CharsPerToken * maxTokens),
                      <<>>, 0)
             ELSE IF currentTokens + lineTokens > maxTokens /\ Len(currentChunk) > 0
             THEN ChunkLines(Tail(lines), maxTokens, Append(chunks, currentChunk),
                             <<line>>, lineTokens)
             ELSE ChunkLines(Tail(lines), maxTokens, chunks,
                             Append(currentChunk, line), currentTokens + lineTokens)

chunkFileContent(content, maxTokens) ==
    IF content = EmptyString \/ IsBlank(content) THEN <<>>
    ELSE IF estimateTokens(content) <= maxTokens THEN <<content>>
    ELSE ChunkLines(content, maxTokens, <<>>, <<>>, 0)

\* ---- one call of chunkFileContent ----------------------------------------------
MaxContentLines == 3
MaxTokens == 2

\* The lengths of the lines tried: empty, under one token, one token, just
\* over one token, over two tokens
LineLengths == {0, 3, 4, 5, 9}

\* Lines of text and a line of two blanks
LineShapes ==
    [length : LineLengths, space : {FALSE}] \cup {[length |-> 2, space |-> TRUE]}

\* The content whose i-th line has the i-th shape
ContentOf(shapes) ==
    [i \in 1..Len(shapes) |->
        [j \in 1..shapes[i].length |->
            [line |-> i, col |-> j, space |-> shapes[i].space]]]

ChunkCalls ==
    {[fn |-> "chunkFileContent", stage |-> "called", content |-> ContentOf(shapes),
      maxTokens |-> maxTokens, chunks |-> <<>>] :
        shapes \in UNION {[1..n -> LineShapes] : n \in 1..MaxContentLines},
        maxTokens \in 1..MaxTokens}

ChunkInit ==
    /\ PipelineInit
    /\ probe \in ChunkCalls

\* The returns before the loop: nothing for a blank content, the content
\* itself when it fits
ReturnWholeStep ==
    /\ probe.fn = "chunkFileContent" /\ probe.stage = "called"
    /\ \/ probe.content = EmptyString
       \/ IsBlank(probe.content)
       \/ estimateTokens(probe.content) <= probe.maxTokens
    /\ probe' = [probe EXCEPT
            !.stage = "returned",
            !.chunks = chunkFileContent(probe.content, probe.maxTokens)]
    /\ UNCHANGED pipelineVars

\* The split into lines, the loop and the return
ChunkLinesStep ==
    /\ probe.fn = "chunkFileContent" /\ probe.stage = "called"
    /\ probe.content # EmptyString
    /\ ~IsBlank(probe.content)
    /\ estimateTokens(probe.content) > probe.maxTokens
    /\ probe' = [probe EXCEPT
            !.stage = "returned",
            !.chunks = chunkFileContent(probe.content, probe.maxTokens)]
    /\ UNCHANGED pipelineVars

ChunkNext == ReturnWholeStep \/ ChunkLinesStep

ChunkSpec == ChunkInit /\ [][ChunkNext]_vars

\* ==== handleWebhook on any request, settings updates and the jobs ===================
MaxRequests == 2

\* HMAC-SHA256 of a body under a key, as a hex digest
Hmac(body, key) == [hex |-> TRUE, key |-> key, body |-> body]

\* A header value that is no hex string
NotHex == [hex |-> FALSE]

WebhookSecret == "secret"

\* validateWebhookSignature: signature.replace('sha256=', ''), the digest
\* of rawBody, both read as hex into buffers (a string that is no hex gives
\* an empty buffer), false on different lengths, else timingSafeEqual.
validateWebhookSignature_LengthOnly(rawBody, signature, secret) ==
    LET expectedSignature == signature.digest
    IN  expectedSignature.hex

validateWebhookSignature(rawBody, signature, secret) ==
    LET expectedSignature == signature.digest
        calculatedSignature == Hmac(rawBody, secret)
    IN  IF ~expectedSignature.hex THEN FALSE
        ELSE expectedSignature = calculatedSignature

\* extractPullRequestData: null unless the payload has pull_request and
\* repository, the action is opened or reopened, and repository, number,
\* title and author are all truthy.
extractPullRequestData(payload) ==
    IF ~payload.pull_request.present \/ ~payload.repository.present THEN Null
    ELSE IF payload.action \notin {"opened", "reopened"} THEN Null
    ELSE LET prData == [isNull |-> FALSE,
                        repository |->
                            IF payload.repository.full_name # ""
                            THEN payload.repository.full_name
                            ELSE payload.repository.name,
                        pullRequestNumber |-> payload.pull_request.number,
                        title |-> payload.pull_request.title,
                        author |-> payload.pull_request.login,
                        action |-> payload.action]
         IN  IF \/ prData.repository = ""
                \/ prData.pullRequestNumber = 0
                \/ prData.title = ""
                \/ prData.author = ""
             THEN Null
             ELSE prData

\* The bodies tried: a complete pull request payload under every action,
\* and an opened pull request with one part missing or empty
PayloadKinds == {"noPullRequest", "noRepository", "noNumber", "noTitle", "noAuthor"}

PayloadActions == {"opened", "reopened", "closed", "created", "added", "removed"}

Payload(kind, action) ==
    [action |-> action,
     pull_request |->
        [present |-> kind # "noPullRequest",
         number |-> IF kind = "noNumber" THEN 0 ELSE 7,
         title |-> IF kind = "noTitle" THEN "" ELSE "title",
         login |-> IF kind = "noAuthor" THEN "" ELSE "author"],
     repository |->
        [present |-> kind # "noRepository", full_name |-> "", name |-> "o/r"]]

Payloads ==
    {Payload("complete", action) : action \in PayloadActions}
        \cup {Payload(kind, "opened") : kind \in PayloadKinds}

\* A body other than the one sent, for a signature made for another request
OtherBody == [action |-> "other"]

\* x-hub-signature-256: absent, the digest of the body with or without
\* 'sha256=', a digest made with another key or for another body, no hex
Signatures(body) ==
    {[present |-> FALSE, prefix |-> FALSE, digest |-> NotHex],
     [present |-> TRUE, prefix |-> FALSE, digest |-> Hmac(body, WebhookSecret)]}
    \cup [present : {TRUE}, prefix : {TRUE},
          digest : {Hmac(body, WebhookSecret), Hmac(body, "guess"),
                    Hmac(OtherBody, WebhookSecret), NotHex}]

\* x-github-event: "" is an absent header
EventTypes == {"", "pull_request", "installation", "installation_repositories", "push"}

\* x-github-delivery: 0 is an absent header
HookRequests ==
    UNION {[deliveryId : 0..MaxDeliveries, eventType : EventTypes,
            signature : Signatures(body), body : {body}] : body \in Payloads}

\* The one repository: its record in the store, the jobs in the queue, the
\* requests handled so far with the last one and its answer, whether an
\* administrator's last settings update disabled reviews (nothing else
\* writes settings.enabled false), and what the jobs processed so far did.
Hooks ==
    [fn |-> "hooks", repo |-> "absent", jobs |-> {}, adds |-> 0, handled |-> 0,
     request |-> Unset, status |-> 0, disabledByAdmin |-> FALSE, runs |-> <<>>]

HooksInit ==
    /\ PipelineInit
    /\ probe \in {[Hooks EXCEPT !.repo = r, !.disabledByAdmin = (r = "disabled")] :
                        r \in {"absent", "enabled", "disabled"}}

\* handleWebhook: the state after the request and the status it answers
handleWebhook(p, req) ==
    LET answered(s, q) == [q EXCEPT !.status = s, !.request = req,
                                    !.handled = p.handled + 1]
    IN  IF req.eventType = "" \/ ~req.signature.present \/ req.deliveryId = 0
        THEN answered(400, p)
        ELSE IF ~validateWebhookSignature(req.body, req.signature, WebhookSecret)
        THEN answered(401, p)
        ELSE IF req.eventType = "installation"
        THEN IF req.body.action = "created"
             THEN answered(200, [p EXCEPT !.repo = "enabled"])
             ELSE answered(200, p)
        ELSE IF req.eventType = "installation_repositories"
        THEN IF req.body.action = "added"
             THEN answered(200, [p EXCEPT !.repo = "enabled"])
             ELSE IF req.body.action = "removed"
             THEN answered(200, [p EXCEPT !.repo = "absent"])
             ELSE answered(200, p)
        ELSE IF req.eventType # "pull_request"
        THEN answered(200, p)
        ELSE IF extractPullRequestData(req.body).isNull
        THEN answered(400, p)
        ELSE answered(200, [p EXCEPT !.jobs = @ \cup {req.deliveryId},
                                     !.adds = @ + 1])

HandleRequest(req) ==
    /\ probe.fn = "hooks" /\ probe.handled < MaxRequests
    /\ probe' = handleWebhook(probe, req)
    /\ UNCHANGED pipelineVars

\* PUT /dashboard/settings/:name with {enabled}: findOneAndUpdate without
\* upsert, 404 when the repository has no record
UpdateSettings(enabled) ==
    /\ probe.fn = "hooks" /\ probe.handled < MaxRequests
    /\ probe' =
        IF probe.repo = "absent"
        THEN [probe EXCEPT !.handled = @ + 1, !.status = 404, !.request = Unset]
        ELSE [probe EXCEPT !.handled = @ + 1, !.status = 200, !.request = Unset,
                           !.repo = IF enabled THEN "enabled" ELSE "disabled",
                           !.disabledByAdmin = ~enabled]
    /\ UNCHANGED pipelineVars

\* processReview for a queued job: findOrCreateRepo creates a missing record
\* with settings.enabled true; a disabled repository ends the job at once,
\* otherwise the review runs (diff, LLM, record, post).
ProcessJob(d) ==
    /\ probe.fn = "hooks" /\ d \in probe.jobs
    /\ LET repo == IF probe.repo = "absent" THEN "enabled" ELSE probe.repo IN
       probe' = [probe EXCEPT
            !.jobs = @ \ {d},
            !.repo = repo,
            !.runs = Append(@, [delivery |-> d, reviewed |-> repo = "enabled"])]
    /\ UNCHANGED pipelineVars

HooksNext ==
    \/ \E req \in HookRequests : HandleRequest(req)
    \/ \E enabled \in BOOLEAN : UpdateSettings(enabled)
    \/ \E d \in Deliveries : ProcessJob(d)

HooksSpec == HooksInit /\ [][HooksNext]_vars

\* ==== The worker's slots: more jobs than slots ========================================
MaxPoolJobs == 3
MaxPoolAdds == 4

PoolJobs == 1..MaxPoolJobs

\* The queue with nothing in it: the ids that have a job, the wait list,
\* the attempts being executed (one entry per processor call in progress),
\* the attempts each job has made, and the calls of reviewQueue.add so far
Pool ==
    [fn |-> "pool", exists |-> {}, wait |-> <<>>, running |-> <<>>,
     attemptsMade |-> [j \in PoolJobs |-> 0], failed |-> {}, adds |-> 0]

PoolInit ==
    /\ PipelineInit
    /\ probe = Pool

\* A worker that takes a job whenever one waits
SlotFree_Always(running) == TRUE

\* Worker option concurrency: 2
SlotFree(running) == Len(running) < Concurrency

\* reviewQueue.add with jobId: an id that has a job is left alone
PoolAdd(j) ==
    /\ probe.fn = "pool" /\ probe.adds < MaxPoolAdds
    /\ probe' =
        IF j \in probe.exists
        THEN [probe EXCEPT !.adds = @ + 1]
        ELSE [probe EXCEPT !.adds = @ + 1, !.exists = @ \cup {j},
                           !.wait = Append(@, j)]
    /\ UNCHANGED pipelineVars

\* The worker calls the processor for the job at the head of the wait list
PoolTake ==
    /\ probe.fn = "pool" /\ probe.wait # <<>>
    /\ SlotFree(probe.running)
    /\ probe' = [probe EXCEPT !.wait = Tail(@),
                              !.running = Append(@, Head(probe.wait))]
    /\ UNCHANGED pipelineVars

\* The processor call at place k returns (the job completes and is
\* removed) or throws (the job is retried while attempts remain, else it
\* fails)
PoolDone(k, ok) ==
    /\ probe.fn = "pool" /\ k \in 1..Len(probe.running)
    /\ LET j == probe.running[k]
           made == probe.attemptsMade[j] + 1
           left == [probe EXCEPT
                      !.running = SubSeq(@, 1, k - 1) \o SubSeq(@, k + 1, Len(@))]
       IN  probe' =
            IF ok
            THEN [left EXCEPT !.exists = @ \ {j}, !.attemptsMade[j] = 0]
            ELSE IF made < Attempts
            THEN [left EXCEPT !.attemptsMade[j] = made, !.wait = Append(@, j)]
            ELSE [left EXCEPT !.attemptsMade[j] = made, !.failed = @ \cup {j}]
    /\ UNCHANGED pipelineVars

PoolNext ==
    \/ \E j \in PoolJobs : PoolAdd(j)
    \/ PoolTake
    \/ \E k \in 1..Concurrency, ok \in BOOLEAN : PoolDone(k, ok)

PoolSpec == PoolInit /\ [][PoolNext]_vars

\* ==== processReview: from the prompt units to the posted review =====================
\* A prompt unit as generateFileLevelPrompts returns it: the prompt of one
\* file, or of one chunk of a file
PromptUnit(filename, chunkIndex) ==
    [filename |-> filename, chunkIndex |-> chunkIndex,
     prompt |-> <<"review", filename, chunkIndex>>]

PromptUnits == {PromptUnit(filename, chunkIndex) :
                    filename \in Filenames, chunkIndex \in {0, 1}}

\* 'No changes found to review.'
NoChangesPrompt == <<"No changes found to review.", "", 0>>

\* What the model finds in a prompt: nothing, or a high bug in the file (at
\* the chunk) the prompt shows
FindingsIn(prompt, found) ==
    IF found /\ prompt # NoChangesPrompt
    THEN <<[file |-> prompt[2], chunkIndex |-> prompt[3], category |-> "bug",
            severity |-> "high"]>>
    ELSE <<>>

PromptRun(prompts) ==
    [fn |-> "reviewPrompts", stage |-> "prompts", prompts |-> prompts,
     sent |-> <<>>, analysis |-> Unset, review |-> Unset, issues |-> <<>>,
     posted |-> Unset]

PromptInit ==
    /\ PipelineInit
    /\ probe \in {PromptRun(prompts) : prompts \in SeqsUpTo(PromptUnits, MaxUnits)}

\* Steps 3 and 4: mainPrompt = prompts[0]?.prompt || 'No changes found to
\* review.' and the call of llmService.analyzeDiff(mainPrompt)
MainPromptStep ==
    /\ probe.fn = "reviewPrompts" /\ probe.stage = "prompts"
    /\ LET mainPrompt == IF Len(probe.prompts) > 0
                         THEN probe.prompts[1].prompt
                         ELSE NoChangesPrompt
       IN  probe' = [probe EXCEPT !.stage = "analyzing",
                                  !.sent = Append(@, mainPrompt)]
    /\ UNCHANGED pipelineVars

\* analyzeDiff resolves with the findings of the prompt it was given, or
\* rejects and processReview rethrows
AnalysisStep(ok, found) ==
    /\ probe.fn = "reviewPrompts" /\ probe.stage = "analyzing"
    /\ probe' =
        IF ok
        THEN LET issues == FindingsIn(probe.sent[Len(probe.sent)], found) IN
             [probe EXCEPT !.stage = "analyzed",
                           !.analysis = [issues |-> issues,
                                         risk_score |-> calculateRiskScore(issues)]]
        ELSE [probe EXCEPT !.stage = "failed"]
    /\ UNCHANGED pipelineVars

\* Steps 6 and 7: Review.create and ReviewIssue.insertMany
PersistStep(ok) ==
    /\ probe.fn = "reviewPrompts" /\ probe.stage = "analyzed"
    /\ probe' =
        IF ok
        THEN [probe EXCEPT !.stage = "saved",
                           !.review = [riskScore |-> probe.analysis.risk_score],
                           !.issues = probe.analysis.issues]
        ELSE [probe EXCEPT !.stage = "failed"]
    /\ UNCHANGED pipelineVars

\* Step 8: githubService.postReview with the analysis
PostStep ==
    /\ probe.fn = "reviewPrompts" /\ probe.stage = "saved"
    /\ probe' = [probe EXCEPT !.stage = "posted",
                              !.posted = [riskScore |-> probe.analysis.risk_score,
                                          issues |-> probe.analysis.issues]]
    /\ UNCHANGED pipelineVars

PromptNext ==
    \/ MainPromptStep
    \/ \E ok \in BOOLEAN, found \in BOOLEAN : AnalysisStep(ok, found)
    \/ \E ok \in BOOLEAN : PersistStep(ok)
    \/ PostStep

PromptSpec == PromptInit /\ [][PromptNext]_vars

\* ==== GET /policies/:repoId and a later policy decision ==============================
MaxReads == 2

\* Policy.create({repositoryId}): the schema's defaults
DefaultPolicy ==
    [exists |-> TRUE,
     blockRiskThreshold |-> DefaultBlockRiskThreshold,
     blockOnHighSecurity |-> TRUE,
     warnOnIssueCount |-> DefaultWarnOnIssueCount]

\* The repository's policy as configured (none, or a document) and as stored
\* now, the reads so far, and the analysis of a pull request
PolicyReads ==
    {[fn |-> "policyRead", stage |-> "stored", configured |-> policy,
      stored |-> policy, reads |-> 0,
      analysis |-> analyzeDiff(Parsed(0, issues)), decision |-> Unset] :
        policy \in Policies, issues \in SeqsUpTo(ReviewIssues, MaxIssues)}

PolicyInit ==
    /\ PipelineInit
    /\ probe \in PolicyReads

\* router.get('/policies/:repoId'): findOne, Policy.create when there is
\* none (it may fail), the policy in the answer
GetPolicy(ok) ==
    /\ probe.fn = "policyRead" /\ probe.stage = "stored"
    /\ probe.reads < MaxReads
    /\ probe' =
        IF ~probe.stored.exists /\ ok
        THEN [probe EXCEPT !.reads = @ + 1, !.stored = DefaultPolicy]
        ELSE [probe EXCEPT !.reads = @ + 1]
    /\ UNCHANGED pipelineVars

\* evaluatePolicy for the pull request, with the policy stored now
DecideStep ==
    /\ probe.fn = "policyRead" /\ probe.stage = "stored"
    /\ probe' = [probe EXCEPT
            !.stage = "decided",
            !.decision = evaluatePolicy(probe.stored, probe.analysis)]
    /\ UNCHANGED pipelineVars

PolicyNext ==
    \/ \E ok \in BOOLEAN : GetPolicy(ok)
    \/ DecideStep

PolicySpec == PolicyInit /\ [][PolicyNext]_vars

\* ==== Claims =================================================================

\* Places of a job id in the queue's lists and sets.
Places(d) ==
    Occurrences(wait, d) + (IF d \in delayed THEN 1 ELSE 0)
        + (IF d \in active THEN 1 ELSE 0) + (IF d \in failed THEN 1 ELSE 0)

\* C1: a delivery id has exactly one job while its job exists, and handling a
\* webhook never touches a job that exists: it changes nothing in the queue,
\* or it appends one new job whose id had no job.
C1_IdempotentEnqueue ==
    [][/\ \A d \in Deliveries : Places(d)' = (IF jobHash'[d].exists THEN 1 ELSE 0)
       /\ delivered' # delivered =>
            /\ \A d \in Deliveries : jobHash[d].exists => jobHash'[d] = jobHash[d]
            /\ \/ wait' = wait
               \/ \E d \in Deliveries : ~jobHash[d].exists /\ wait' = Append(wait, d)
            /\ <<delayed, delayLeft, active, failed>>' =
                    <<delayed, delayLeft, active, failed>>]_vars

\* Two deliveries were handled, nothing completed, and one job exists: the
\* second delivery had the id of the first and found its job in the queue.
C1_Witness ==
    /\ delivered = 2
    /\ \A d \in Deliveries : completedRuns[d] = 0
    /\ \E d \in Deliveries :
            /\ jobHash[d].exists
            /\ d \in active
            /\ \A e \in Deliveries \ {d} : ~jobHash[e].exists

\* C2: for each delivery id the review pipeline resolves at most once,
\* redeliveries included.
C2_ReviewAtMostOnce == \A d \in Deliveries : completedRuns[d] <= 1

\* C3: a job is started at most Attempts times; a start after the first one
\* follows a failed attempt whose backoff has elapsed; a job in the failed set
\* has used all its attempts, stays there and is never started again.
C3_BoundedAttempts ==
    [][\A d \in Deliveries :
        /\ jobHash'[d].attemptsStarted <= Attempts
        /\ (d \notin active /\ d \in active' /\ jobHash[d].attemptsStarted >= 1) =>
                /\ jobHash[d].attemptsMade = jobHash[d].attemptsStarted
                /\ delayLeft[d] = 0
        /\ d \in failed =>
                /\ jobHash[d].attemptsMade = Attempts
                /\ d \in failed'
                /\ d \notin active'
                /\ jobHash'[d] = jobHash[d]]_vars

\* A job failed twice and sits in the failed set while the host redelivers.
C3_Witness ==
    \E d \in Deliveries :
        /\ d \in failed
        /\ jobHash[d].attemptsStarted = Attempts
        /\ delivered = MaxWebhooks

\* C4: at most one token exchange request per installation is in flight.
C4_SingleExchange == \A i \in Installs : inFlight[i] <= 1

\* C5: when postReview asks for the token while the token getDiff got in the
\* same attempt is still within its expiry minus the margin, it gets that
\* token, sends no exchange request and signs no JWT.
C5_SecondCallReusesToken ==
    [][\A d \in Deliveries :
        (/\ pc[d] \in {"create", "issues"}
         /\ pc'[d] \in {"post_create", "post_exch", "usage"}
         /\ diffLeft[d] > MarginMs) =>
            /\ pc'[d] = "post_create"
            /\ postTok'[d] = diffTok[d]
            /\ inFlight' = inFlight]_vars

\* A step in which getInstallationAccessToken answers job d from the cache.
CacheAnswered(d) ==
    \/ pc[d] = "repo" /\ pc'[d] = "diff_list" /\ via'[d] = "cache"
    \/ pc[d] \in {"create", "issues"} /\ pc'[d] = "post_create" /\ via'[d] = "cache"

\* A step in which job d calls getInstallationAccessToken.
TokenCalled(d) ==
    \/ pc[d] = "repo" /\ (pc'[d] \in {"diff_list", "diff_exch"} \/ authFailed'[d])
    \/ pc[d] \in {"create", "issues"} /\ pc'[d] \in {"post_create", "post_exch", "usage"}

\* C6: the cache answers a call only with the entry of the installation and
\* only while now is strictly before the token's real expiry minus the margin;
\* from then on a call signs a JWT and, unless signing throws, sends an exchange.
C6_NoExpiredToken ==
    [][\A d \in Deliveries :
        LET e == tokenCache[InstallOf(d)] IN
        /\ CacheAnswered(d) =>
                /\ e.realLeft > MarginMs
                /\ e.token # NoToken
                /\ (pc[d] = "repo" => diffTok'[d] = e.token)
                /\ (pc[d] # "repo" => postTok'[d] = e.token)
        /\ (TokenCalled(d) /\ e.realLeft <= MarginMs) =>
                \/ inFlight'[InstallOf(d)] = inFlight[InstallOf(d)] + 1
                \/ authFailed'[d]]_vars

\* getDiff's client got its token from the cache.
C6_Witness ==
    \E d \in Deliveries :
        /\ pc[d] = "diff_list"
        /\ via[d] = "cache"
        /\ diffTok[d] # NoToken

\* C7: an attempt in which signing the JWT or the token exchange failed has
\* ended as a failed attempt.
C7_AuthFailureIsFatal ==
    \A d \in Deliveries :
        authFailed[d] =>
            /\ d \notin active
            /\ jobHash[d].exists
            /\ jobHash[d].attemptsMade >= 1

\* The job's calls the claim names: token exchange, diff fetch, LLM request.
ExternalWaits == {"diff_exch", "diff_list", "llm", "post_exch"}

\* C8: a job waiting for an external call leaves the active list in the end,
\* whether or not the call answers.
C8_HungCallEnds ==
    \A d \in Deliveries : (pc[d] \in ExternalWaits) ~> (d \notin active)

\* C9: every job reaches a terminal state: completed (and removed) or in the
\* failed set after its last attempt.
C9_JobsTerminate ==
    \A d \in Deliveries :
        jobHash[d].exists ~> (~jobHash[d].exists \/ d \in failed)

\* One job completed and was removed, another is exhausted.
C9_Witness ==
    \E d, e \in Deliveries :
        /\ ~jobHash[d].exists
        /\ completedRuns[d] >= 1
        /\ e \in failed
        /\ jobHash[e].attemptsMade = Attempts

\* The two runs of the probe got model responses equal in all but risk_score.
SameExceptRiskScore ==
    /\ probe.fn = "processReview" =>
        /\ probe.inA.issues = probe.inB.issues
        /\ probe.inA.summary = probe.inB.summary
    /\ probe.fn = "batch" =>
        /\ Len(probe.inA) = Len(probe.inB)
        /\ \A k \in 1..Len(probe.inA) :
            /\ probe.inA[k].failed = probe.inB[k].failed
            /\ probe.inA[k].response.issues = probe.inB[k].response.issues
            /\ probe.inA[k].response.summary = probe.inB[k].response.summary

\* C10: the model's risk_score never influences what is stored or shown. Two
\* runs on model responses that are identical except for risk_score reach the
\* same policy decision, persist the same riskScore in the review record and
\* post the same risk score, in analyzeDiff/processReview and in
\* sendToLLM/the batch worker.
C10_ModelScoreNeverMatters ==
    SameExceptRiskScore =>
        /\ probe.fn = "processReview"
            /\ probe.stage \in {"policy", "saved", "posted"} =>
                probe.outA.policyDecision = probe.outB.policyDecision
        /\ probe.fn = "processReview" /\ probe.stage \in {"saved", "posted"} =>
                probe.outA.review.riskScore = probe.outB.review.riskScore
        /\ probe.fn = "processReview" /\ probe.stage = "posted" =>
                /\ probe.outA.posted.riskScore = probe.outB.posted.riskScore
                /\ probe.outA.posted.event = probe.outB.posted.event
        /\ probe.fn = "batch" /\ probe.stage \in {"saved", "commented"} =>
                probe.outA.saved.riskScore = probe.outB.saved.riskScore
        /\ probe.fn = "batch" /\ probe.stage = "commented" =>
                probe.outA.comment.riskScore = probe.outB.comment.riskScore

\* The model said 0 in one run and 100 in the other; both reviews were
\* blocked and posted with the recalculated score.
C10_Witness ==
    /\ probe.fn = "processReview" /\ probe.stage = "posted"
    /\ probe.inA.risk_score = 0 /\ probe.inB.risk_score = ScoreCap
    /\ probe.outA.policyDecision.isBlocked
    /\ probe.outA.posted.riskScore = SecurityHighScore + BugHighScore
    /\ probe.outB.review.riskScore = SecurityHighScore + BugHighScore

\* ---- policy decisions: ReviewService.evaluatePolicy --------------------------

\* The runs of the probe that evaluatePolicy has answered: input, analysis
\* returned by analyzeDiff, decision.
Decided ==
    IF probe.fn = "processReview" /\ probe.stage \in {"policy", "saved", "posted"}
    THEN {probe.outA, probe.outB}
    ELSE {}

\* The decision carries the risk-score reason.
HasRiskReason(decision) ==
    \E k \in 1..Len(decision.reason) : decision.reason[k][1] = "Risk score"

\* The decision carries a reason other than the risk score.
HasOtherReason(decision) ==
    \E k \in 1..Len(decision.reason) : decision.reason[k][1] # "Risk score"

\* C11: with a policy, evaluatePolicy blocks on risk exactly when the risk
\* score is strictly greater than blockRiskThreshold: a score above the
\* threshold always blocks, and a score at or below it blocks only if another
\* blocking condition holds.
C11_BlocksAboveThreshold ==
    \A out \in Decided :
        probe.policy.exists =>
            LET score == out.analysis.risk_score
                decision == out.policyDecision
            IN  /\ HasRiskReason(decision) <=>
                        score > probe.policy.blockRiskThreshold
                /\ score > probe.policy.blockRiskThreshold => decision.isBlocked
                /\ (score <= probe.policy.blockRiskThreshold /\ decision.isBlocked)
                        => HasOtherReason(decision)

\* Threshold 80 and no security flag: a review scored 85 is blocked.
C11_Witness ==
    /\ probe.fn = "processReview" /\ probe.stage = "policy"
    /\ probe.policy.exists
    /\ probe.policy.blockRiskThreshold = DefaultBlockRiskThreshold
    /\ ~probe.policy.blockOnHighSecurity
    /\ probe.outA.analysis.risk_score = 85
    /\ probe.outA.policyDecision.isBlocked

\* A finding of category security and of the given severity, compared as
\* evaluatePolicy compares (lower-cased).
SecurityFinding(issues, severities) ==
    \E k \in 1..Len(issues) :
        /\ toLowerCase(issues[k].category) = "security"
        /\ toLowerCase(issues[k].severity) \in severities

\* C12: with the high-severity-security flag set, every review holding a
\* security finding of severity high or critical is blocked.
C12_SecurityHighOrCriticalBlocks ==
    \A out \in Decided :
        (/\ probe.policy.exists
         /\ probe.policy.blockOnHighSecurity
         /\ SecurityFinding(out.analysis.issues, {"high", "critical"}))
            => out.policyDecision.isBlocked

\* C13: with an issue-count limit in the policy, every review with more
\* findings than the limit is blocked.
C13_IssueCountBlocks ==
    \A out \in Decided :
        (/\ probe.policy.exists
         /\ Len(out.analysis.issues) > probe.policy.warnOnIssueCount)
            => out.policyDecision.isBlocked

\* C14: without a stored policy the decision is isBlocked = false with an
\* empty reason, whatever the score and the findings, and the review is
\* posted with the verb COMMENT.
C14_NoPolicyNeverBlocks ==
    (probe.fn = "processReview" /\ ~probe.policy.exists) =>
        /\ \A out \in Decided :
                out.policyDecision = [isBlocked |-> FALSE, reason |-> <<>>]
        /\ probe.stage = "posted" =>
                /\ probe.outA.posted.event = "COMMENT"
                /\ probe.outB.posted.event = "COMMENT"

\* No policy, a review scored 100 with a high security finding, posted as a
\* comment.
C14_Witness ==
    /\ probe.fn = "processReview" /\ probe.stage = "posted"
    /\ ~probe.policy.exists
    /\ probe.outA.analysis.risk_score = ScoreCap
    /\ SecurityFinding(probe.outA.analysis.issues, {"high"})
    /\ ~probe.outA.policyDecision.isBlocked
    /\ probe.outA.posted.event = "COMMENT"

\* The runs of the probe that have posted their review.
Posted ==
    IF probe.fn = "processReview" /\ probe.stage = "posted"
    THEN {probe.outA, probe.outB}
    ELSE {}

\* C15: a posted review has the verb REQUEST_CHANGES if and only if its
\* policy decision is blocked, COMMENT otherwise, and the isBlocked stored
\* with the review record agrees with the verb.
C15_VerbFollowsDecision ==
    \A out \in Posted :
        /\ out.posted.event \in {"REQUEST_CHANGES", "COMMENT"}
        /\ out.posted.event = "REQUEST_CHANGES" <=> out.policyDecision.isBlocked
        /\ out.review.policyDecisionCache.isBlocked <=>
                out.posted.event = "REQUEST_CHANGES"

\* A blocked review, stored as blocked and posted with REQUEST_CHANGES.
C15_Witness ==
    /\ probe.fn = "processReview" /\ probe.stage = "posted"
    /\ probe.outA.policyDecision.isBlocked
    /\ probe.outA.review.policyDecisionCache.isBlocked
    /\ probe.outA.posted.event = "REQUEST_CHANGES"

\* ---- the batch worker ------------------------------------------------------------

\* sendBatchToLLM has returned to the worker.
BatchReturned ==
    /\ probe.fn = "batchWorker"
    /\ probe.stage \in {"saving", "commenting", "done"}
    /\ probe.aggregated # Unset

FailedUnits == {k \in 1..Len(probe.responses) : probe.responses[k].failed}
SucceededUnits == {k \in 1..Len(probe.responses) : ~probe.responses[k].failed}

\* C16: a job attempt in which all LLM calls failed persists no review, posts
\* nothing and ends as failed, never as completed (batch worker).
C16_AllFailedJobFails ==
    (/\ BatchReturned
     /\ probe.stage = "done"
     /\ FailedUnits # {}
     /\ SucceededUnits = {}) =>
        /\ probe.saved = Unset
        /\ probe.comment = Unset
        /\ probe.job = "failed"

\* C17: when at least one unit succeeded and at least one failed, the
\* aggregated review holds the findings of the successful units and carries
\* a marker of partial coverage: it differs from the review aggregated from
\* the successful units alone.
C17_PartialIsMarked ==
    (/\ BatchReturned
     /\ FailedUnits # {}
     /\ SucceededUnits # {}) =>
        /\ ~probe.aggregated.isNull
        /\ \A k \in SucceededUnits :
              \A n \in 1..Len(probe.responses[k].response.issues) :
                 \E m \in 1..Len(probe.aggregated.issues) :
                    IssueKey(probe.aggregated.issues[m]) =
                        IssueKey(probe.responses[k].response.issues[n])
        /\ aggregateJSONResponses(probe.responses) #
                aggregateJSONResponses(Successful(probe.responses))

\* C19: in the batch path a unit whose content does not parse is sent a
\* second time with the same prompt before it is recorded as failed.
C19_BatchParseRetry ==
    probe.fn = "batchWorker" =>
        \A k \in 1..Len(probe.responses) :
            (probe.responses[k].failed /\ probe.responses[k].error = "garbage")
                => Occurrences(probe.sent, k) = 2

\* C20: sendBatchToLLM never rejects and returns one result per prompt in
\* input order; a failed call leaves {failed, error, filename} and the
\* remaining prompts are still sent; no prompt is sent again; the aggregate
\* takes findings, summary and usage from the successful results only.
C20_OneResultPerPrompt ==
    /\ (probe.fn = "batchWorker" /\ probe.stage \in {"waiting", "delay"}) =>
        /\ probe.job = "active"
        /\ probe.sent = [k \in 1..probe.i |-> k]
        /\ Len(probe.responses) =
                IF probe.stage = "waiting" THEN probe.i - 1 ELSE probe.i
    /\ BatchReturned =>
        /\ probe.job # "failed"
        /\ Len(probe.responses) = Len(probe.prompts)
        /\ probe.sent = [k \in 1..Len(probe.prompts) |-> k]
        /\ \A k \in 1..Len(probe.prompts) :
                probe.responses[k].filename = probe.prompts[k]
        /\ \A k \in FailedUnits :
                DOMAIN probe.responses[k] = {"failed", "error", "filename"}
        /\ SucceededUnits = {} <=> probe.aggregated.isNull
        /\ ~probe.aggregated.isNull =>
            /\ probe.aggregated.usage = Cardinality(SucceededUnits)
            /\ Len(probe.aggregated.summary) = Cardinality(SucceededUnits)
            /\ \A m \in 1..Len(probe.aggregated.issues) :
                  \E k \in SucceededUnits :
                     \E n \in 1..Len(probe.responses[k].response.issues) :
                        probe.aggregated.issues[m] =
                            probe.responses[k].response.issues[n]

\* The first call failed, the second was still sent and succeeded with a
\* finding, and the aggregate holds that finding only.
C20_Witness ==
    /\ BatchReturned
    /\ Len(probe.prompts) = 2
    /\ FailedUnits = {1}
    /\ SucceededUnits = {2}
    /\ Len(probe.aggregated.issues) = 1
    /\ probe.aggregated.usage = 1

\* ---- LLMService.analyzeDiff ---------------------------------------------------

\* JSON.parse accepts the content of this kind of answer.
Parses(kind) == kind \in {"json", "malformed"}

C21_PostFailureIsSwallowed ==
    [][\A d \in Deliveries :
        /\ posted'[d] = "failed" /\ posted[d] # "failed" =>
                /\ pc'[d] = "usage"
                /\ d \in active'
                /\ jobHash'[d] = jobHash[d]
                /\ d \notin delayed' \cup failed'
                /\ reviews[d] >= 1
                /\ reviews'[d] = reviews[d]
        /\ posted[d] = "failed" /\ pc[d] = "usage" /\ pc'[d] # pc[d] =>
                /\ pc'[d] = "idle"
                /\ jobHash'[d] = NoJob
                /\ d \notin active' \cup delayed' \cup failed'
                /\ Occurrences(wait', d) = 0
                /\ completedRuns'[d] = Bump(completedRuns[d])
                /\ reviews'[d] = reviews[d]
    ]_vars

\* A job whose review could not be posted, completed in its first attempt
\* with its Review document stored.
C21_Witness ==
    \E d \in Deliveries :
        /\ posted[d] = "failed"
        /\ pc[d] = "idle"
        /\ jobHash[d] = NoJob
        /\ d \notin active \cup delayed \cup failed
        /\ completedRuns[d] = 1
        /\ reviews[d] = 1

\* ---- an empty diff -------------------------------------------------------------
\* C22: when pulls.listFiles answers with no file that has a patch, the
\* attempt does not fail: the job counts no failed attempt and goes to
\* neither the delayed nor the failed set.
C22_EmptyDiffIsValid ==
    [][\A d \in Deliveries :
        DiffListAnswer(d, "empty") =>
            /\ jobHash'[d].attemptsMade = jobHash[d].attemptsMade
            /\ d \notin delayed' \cup failed'
    ]_vars

\* ---- diffCleaner.cleanAndStructureDiff ------------------------------------------
DiffReturned == probe.fn = "cleanAndStructureDiff" /\ probe.stage = "returned"

EmptyResult == [files |-> <<>>, totalFiles |-> 0, totalChanges |-> 0]

\* A text has a hunk when "@@" occurs in it.
HasHunk(text) ==
    \E k \in 1..Len(text) : \E j \in 1..Len(text[k]) : text[k][j] = "@@"

\* Empty or whitespace-only, without a "diff --git " boundary, or without a
\* hunk
Malformed(text) ==
    \/ \A k \in 1..Len(text) : IsWhitespace(text[k])
    \/ Boundaries(text) = {}
    \/ ~HasHunk(text)

\* C23: on an empty, whitespace-only or malformed raw diff
\* cleanAndStructureDiff returns no file, totalFiles 0 and totalChanges 0.
C23_MalformedGivesNothing ==
    DiffReturned /\ Malformed(probe.rawDiff) => probe.result = EmptyResult

\* ---- aggregateJSONResponses ----------------------------------------------------
AggregateReturned ==
    probe.fn = "aggregateJSONResponses" /\ probe.stage = "returned"

\* The findings of the successful units, in unit order
Findings == AllIssues(probe.successful)

\* file, line and description text of a finding
Triple(issue) == <<issue.file, issue.line, issue.message>>

\* C24: the aggregated review holds exactly one finding for every (file,
\* line, description) that occurs among the findings of the units: equal
\* triples are collapsed, different triples are all kept.
C24_CollapsedIffSameTriple ==
    AggregateReturned /\ ~probe.result.isNull =>
        LET out == probe.result.issues
            triples == {Triple(Findings[i]) : i \in 1..Len(Findings)}
        IN  /\ \A t \in triples :
                    Cardinality({k \in 1..Len(out) : Triple(out[k]) = t}) = 1
            /\ Len(out) = Cardinality(triples)

\* C25: a finding of the aggregated review is the first finding, in unit
\* order, with its de-duplication key.
C25_FirstOccurrenceKept ==
    AggregateReturned /\ ~probe.result.isNull =>
        LET out == probe.result.issues IN
        \A k \in 1..Len(out) :
            LET same == {i \in 1..Len(Findings) :
                            IssueKey(Findings[i]) = IssueKey(out[k])}
                first == CHOOSE i \in same : \A j \in same : i <= j
            IN  out[k] = Findings[first]

\* A unit succeeded: its call did not fail and its content is a review.
Succeeded(unit) == ~unit.failed /\ unit.response # FalsyContent

\* C26: aggregateJSONResponses returns null if and only if no unit
\* succeeded; otherwise it returns a review object, whose findings are those
\* of the units, none when the units report none.
C26_NullIffNoneSucceeded ==
    AggregateReturned =>
        LET some == \E k \in 1..Len(probe.responses) :
                        Succeeded(probe.responses[k])
        IN  /\ probe.result.isNull <=> ~some
            /\ some =>
                /\ probe.result = [isNull |-> FALSE,
                                   summary |-> probe.result.summary,
                                   issues |-> probe.result.issues,
                                   usage |-> probe.result.usage]
                /\ probe.result.issues = <<>> <=> Findings = <<>>

\* A clean review: one unit failed, the other reported no finding.
C26_Witness ==
    /\ AggregateReturned
    /\ Len(probe.responses) = 2
    /\ probe.responses[1].failed
    /\ Succeeded(probe.responses[2])
    /\ ~probe.result.isNull
    /\ probe.result.issues = <<>>

\* ---- risk scoring ---------------------------------------------------------------
\* The weight the severity-only table gives a finding
SeverityOnlyWeight(issue) ==
    LET severity == toLowerCase(issue.severity) IN
    CASE severity = "critical" -> CriticalWeight
      [] severity = "high" -> HighWeight
      [] severity = "medium" -> MediumWeight
      [] severity = "low" -> LowWeight
      [] OTHER -> DefaultWeight

RECURSIVE SeverityOnlyTotal(_)
SeverityOnlyTotal(issues) ==
    IF issues = <<>> THEN 0
    ELSE SeverityOnlyWeight(Head(issues)) + SeverityOnlyTotal(Tail(issues))

\* C27: the risk score processReview stores and posts is min(100, sum of the
\* severity weights) of the findings: critical 40, high 20, medium 10, low 5,
\* any other severity 5, whatever their categories.
C27_ScoreBySeverityOnly ==
    \A out \in Posted :
        LET score == Min(ScoreCap, SeverityOnlyTotal(out.analysis.issues)) IN
        /\ out.analysis.risk_score = score
        /\ out.review.riskScore = score
        /\ out.posted.riskScore = score

Scored == probe.fn = "score" /\ probe.stage = "scored"

\* C28: one finding of severity "high" and one of severity "low" score 25 on
\* every scoring path.
C28_HighAndLowScore25 ==
    Scored /\ Len(probe.issues) = 2
           /\ {probe.issues[1].severity, probe.issues[2].severity} = {"high", "low"}
        => /\ probe.scores.llmService = HighWeight + LowWeight
           /\ probe.scores.llmClient = HighWeight + LowWeight
           /\ probe.scores.worker = HighWeight + LowWeight

\* C29: calculateRiskScore and calculateDeterministicRiskScore give a list of
\* findings and any reordering of it the same score, an integer from 0 to
\* 100.
C29_ScoreIgnoresOrder ==
    /\ probe.fn = "score" /\ probe.stage \in {"llmService", "llmClient", "scored"} =>
            /\ probe.scores.llmService = probe.scoresReordered.llmService
            /\ probe.scores.llmService \in 0..ScoreCap
    /\ probe.fn = "score" /\ probe.stage \in {"llmClient", "scored"} =>
            /\ probe.scores.llmClient = probe.scoresReordered.llmClient
            /\ probe.scores.llmClient \in 0..ScoreCap

\* Three findings worth 40, 30 and 15 in one order and 15, 40, 30 in the
\* other: 85 by calculateRiskScore both times.
C29_Witness ==
    /\ Scored
    /\ Len(probe.issues) = 3
    /\ probe.issues # probe.reordered
    /\ probe.issues[1].category = "security"
    /\ probe.reordered[1].category = "performance"
    /\ probe.scores.llmService =
            SecurityHighScore + BugHighScore + PerformanceMediumScore
    /\ probe.scoresReordered.llmService = probe.scores.llmService

\* ---- the cleaned content ---------------------------------------------------------
\* The lines of the cleaned content of the files returned
CleanedLines ==
    IF DiffReturned
    THEN UNION {{probe.result.files[f].changes[k] :
                    k \in 1..Len(probe.result.files[f].changes)} :
                f \in 1..Len(probe.result.files)}
    ELSE {}

\* C30 as stated: no line of the cleaned content begins with '-' or is a
\* '---', '+++' or '@@' header, the text of added lines included.
C30_NoMarkerAtLineStart ==
    \A line \in CleanedLines :
        /\ ~startsWith(line, <<"-">>)
        /\ ~startsWith(line, <<"+", "+", "+">>)
        /\ ~startsWith(line, <<"@@">>)

\* What trim can leave of a line at the ends of the content
Trimmings(text) ==
    {text, TrimLineStart(text), TrimLineEnd(text), TrimLineStart(TrimLineEnd(text))}

\* C30: every line of the cleaned content is the text behind the marker of
\* an added or a context line of the raw diff, trimmed where the content
\* ends; deleted lines and headers contribute no line.
C30_CleanedLinesAreAddedOrContext ==
    \A line \in CleanedLines :
        \E k \in 1..Len(probe.rawDiff) :
            LET raw == probe.rawDiff[k] IN
            /\ startsWith(raw, <<"+">>) \/ startsWith(raw, <<" ">>)
            /\ ~startsWith(raw, <<"+", "+", "+">>)
            /\ line \in Trimmings(Tail(raw))

\* A hunk with a deleted line and an added line whose text starts with
\* '@@': the content is that text alone.
C30_Witness ==
    /\ DiffReturned
    /\ \E k \in 1..Len(probe.rawDiff) : probe.rawDiff[k] = <<"-", "x">>
    /\ \E k \in 1..Len(probe.rawDiff) : probe.rawDiff[k] = <<"+", "@@", "x">>
    /\ Len(probe.result.files) = 1
    /\ probe.result.files[1].changes = << <<"@@", "x">> >>

\* ---- tokenManager.js ---------------------------------------------------------------
\* The files of a list that have the risk r, in the list's order
RECURSIVE WithRisk(_, _)
WithRisk(files, r) ==
    IF files = <<>> THEN <<>>
    ELSE (IF calculateFileRisk(Head(files)) = r THEN <<Head(files)>> ELSE <<>>)
         \o WithRisk(Tail(files), r)

\* How often a file occurs in a list
Count(files, file) == Cardinality({k \in 1..Len(files) : files[k] = file})

\* C31: prioritizeFiles returns a permutation of its input in non-increasing
\* order of calculateFileRisk, files of equal risk in their input order, and
\* leaves the input array as it was.
C31_StablePermutationByRisk ==
    [][probe.fn = "prioritizeFiles" /\ probe'.stage = "returned" =>
        /\ probe'.files = probe.files
        /\ \A file \in FileChanges :
                Count(probe'.prioritized, file) = Count(probe.files, file)
        /\ \A k \in 1..(Len(probe'.prioritized) - 1) :
                calculateFileRisk(probe'.prioritized[k])
                    >= calculateFileRisk(probe'.prioritized[k + 1])
        /\ \A r \in 0..FileRiskCap :
                WithRisk(probe'.prioritized, r) = WithRisk(probe.files, r)]_vars

\* Two files of risk 20 behind a file of risk 0 in the input, both in front
\* of it in the result, in their input order
C31_Witness ==
    /\ probe.fn = "prioritizeFiles" /\ probe.stage = "returned"
    /\ Len(probe.files) = 3
    /\ calculateFileRisk(probe.files[1]) = 0
    /\ calculateFileRisk(probe.files[2]) = CoreFileRisk
    /\ calculateFileRisk(probe.files[3]) = HugeChangeRisk
    /\ probe.files[2] # probe.files[3]
    /\ probe.prioritized = <<probe.files[2], probe.files[3], probe.files[1]>>

Chunked == probe.fn = "chunkFileContent" /\ probe.stage = "returned"

\* C32: every chunk chunkFileContent returns has an estimated token count
\* of at most maxTokens, chunks of several lines included.
C32_ChunksFitMaxTokens ==
    Chunked =>
        \A k \in 1..Len(probe.chunks) :
            estimateTokens(probe.chunks[k]) <= probe.maxTokens

\* The characters of a content in order, its newlines left out
RECURSIVE Characters(_)
Characters(content) ==
    IF content = <<>> THEN <<>> ELSE Head(content) \o Characters(Tail(content))

RECURSIVE ChunkCharacters(_)
ChunkCharacters(chunks) ==
    IF chunks = <<>> THEN <<>>
    ELSE Characters(Head(chunks)) \o ChunkCharacters(Tail(chunks))

\* C33: for a non-blank content the chunks, concatenated in index order and
\* stripped of newlines, are the content stripped of newlines.
C33_ChunksPreserveContent ==
    Chunked /\ ~IsBlank(probe.content) =>
        ChunkCharacters(probe.chunks) = Characters(probe.content)

\* A content of three lines cut into three or more chunks, one of them a
\* piece of an over-long line
C33_Witness ==
    /\ Chunked
    /\ Len(probe.content) = 3
    /\ Len(probe.chunks) >= 3
    /\ \E i \in 1..3 : Len(probe.content[i]) > CharsPerToken * probe.maxTokens
    /\ \E k \in 1..Len(probe.chunks) :
            /\ Len(probe.chunks[k]) = 1
            /\ Len(probe.chunks[k][1]) = CharsPerToken * probe.maxTokens
    /\ ChunkCharacters(probe.chunks) = Characters(probe.content)

\* ---- sendBatchToLLM: the delay ---------------------------------------------------
\* C34: in one sendBatchToLLM run the calls are sent one after the other,
\* and before every call but the first the configured delayBetweenCalls has
\* elapsed since the call before it ended, whether that call succeeded or
\* failed.
C34_DelayBeforeEveryNextCall ==
    probe.fn = "batchWorker" /\ probe.sent # <<>> =>
        /\ \A k \in 1..Len(probe.sent) : probe.sent[k] = k
        /\ Len(probe.responses) \in {Len(probe.sent) - 1, Len(probe.sent)}
        /\ probe.delayBetweenCalls > 0 => probe.delays >= Len(probe.sent) - 1

\* ---- handleWebhook ------------------------------------------------------------------
\* The request is one the claim lets through
Acceptable(req) ==
    /\ req.eventType # "" /\ req.signature.present /\ req.deliveryId # 0
    /\ req.signature.digest = Hmac(req.body, WebhookSecret)
    /\ req.eventType = "pull_request"
    /\ req.body.action \in {"opened", "reopened"}
    /\ req.body.pull_request.present /\ req.body.repository.present
    /\ req.body.repository.full_name # "" \/ req.body.repository.name # ""
    /\ req.body.pull_request.number # 0
    /\ req.body.pull_request.title # ""
    /\ req.body.pull_request.login # ""

\* C35: handleWebhook calls reviewQueue.add only for a request with all
\* three headers, a valid HMAC-SHA256 signature of the raw body, event
\* pull_request, action opened or reopened and non-empty repository, number,
\* title and author; with a missing header or an invalid signature it
\* neither writes nor deletes a repository record.
C35_EnqueueOnlyValidated ==
    [][probe.fn = "hooks" /\ probe'.handled = probe.handled + 1
            /\ probe'.request # Unset =>
        LET req == probe'.request IN
        /\ ~Acceptable(req) => probe'.jobs = probe.jobs /\ probe'.adds = probe.adds
        /\ probe'.adds # probe.adds => Acceptable(req)
        /\ \/ req.eventType = "" \/ ~req.signature.present \/ req.deliveryId = 0
           \/ req.signature.digest # Hmac(req.body, WebhookSecret)
           => probe'.repo = probe.repo /\ probe'.status \in {400, 401}]_vars

\* An accepted pull request is queued after a request with a signature made
\* with another key was turned away
C35_Witness ==
    /\ probe.fn = "hooks" /\ probe.handled = 2
    /\ probe.adds = 1
    /\ probe.status = 401
    /\ probe.request.signature.digest = Hmac(probe.request.body, "guess")
    /\ probe.request.eventType = "installation_repositories"
    /\ probe.request.body.action = "removed"
    /\ probe.repo = "disabled"

\* C40: after an administrator disabled reviews and until a settings update
\* enables them again, every job of the repository ends without a review,
\* whatever webhook events arrive in between.
C40_DisabledStaysDisabled ==
    [][probe.fn = "hooks" /\ probe.disabledByAdmin
            /\ Len(probe'.runs) = Len(probe.runs) + 1 =>
        ~probe'.runs[Len(probe'.runs)].reviewed]_vars

\* ---- the worker's slots ---------------------------------------------------------------
\* C36: at most 2 attempts are executed at a time, no job by two slots at
\* once, and a job that is being executed is not waiting for a slot.
C36_AtMostTwoActive ==
    probe.fn = "pool" =>
        /\ Len(probe.running) <= 2
        /\ \A k \in 1..Len(probe.running) : \A l \in 1..Len(probe.running) :
                probe.running[k] = probe.running[l] => k = l
        /\ \A k \in 1..Len(probe.running) : \A l \in 1..Len(probe.wait) :
                probe.running[k] # probe.wait[l]

\* Two jobs are being executed while the third waits for a slot
C36_Witness ==
    /\ probe.fn = "pool"
    /\ Len(probe.running) = 2
    /\ Len(probe.wait) = 1
    /\ probe.attemptsMade[probe.wait[1]] = 1

\* ---- processReview: the prompt units ------------------------------------------------
\* C37: when the cleaned diff yields n >= 1 prompt units, every unit has
\* been sent to the review engine by the time the review is posted, so the
\* review covers each of them.
C37_EveryUnitSubmitted ==
    probe.fn = "reviewPrompts" /\ probe.stage = "posted" =>
        \A k \in 1..Len(probe.prompts) :
            \E s \in 1..Len(probe.sent) : probe.sent[s] = probe.prompts[k].prompt

\* ---- review records ---------------------------------------------------------------
\* C38: over the attempts of one job (the first run and its retry) at most
\* one review record is created for the delivery, also when an attempt
\* fails after Review.create.
C38_OneReviewRecordPerJob ==
    \A d \in Deliveries : completedRuns[d] = 0 => reviews[d] <= 1

\* ---- reading the policy --------------------------------------------------------------
\* C39: a policy decision is the same whether or not the policy was read
\* with GET /policies/:repoId before: isBlocked is what evaluatePolicy gives
\* for the policy as configured, and a repository without a configured
\* policy is not blocked.
C39_ReadingChangesNoDecision ==
    probe.fn = "policyRead" /\ probe.stage = "decided" =>
        /\ probe.decision.isBlocked
                = evaluatePolicy(probe.configured, probe.analysis).isBlocked
        /\ ~probe.configured.exists => ~probe.decision.isBlocked

====
